---- MODULE Spec2Model ----
(***************************************************************************)
(* Model of the LLM client of ai-hr-job-matcher (src/llm_utils.py):        *)
(* the rate gate and retry loop of call_llm, and the JSON salvage          *)
(* functions clean_json_response / safe_json_parse.                        *)
(*                                                                         *)
(* Time is counted in whole seconds.  A caller is one thread of control    *)
(* executing call_llm; the module global LAST_REQUEST_TIME is shared by    *)
(* all callers.                                                            *)
(***************************************************************************)
EXTENDS Integers, Sequences, FiniteSets, TLC

\* ------------------------------------------------------------------ bounds
\* longest time, in seconds, since the previous request when call_llm is
\* entered
MaxIdle == 3
\* longest text, in characters, of the exhaustively enumerated inputs
MaxTextLen == 3
\* characters by which the long input texts exceed the limit of 'raw'
PadLen == 2
\* longest round-trip, in seconds, of a request that gets a response
MaxLatency == 1
\* value returned by time.time() when the process starts
StartTime == 100

\* ------------------------------------------------------- program constants
MIN_REQUEST_INTERVAL == 3
max_retries == 4
retry_delays == <<5, 15, 30, 60>>
\* timeout= argument of requests.post in call_llm
POST_TIMEOUT == 120
\* time.sleep argument of the Timeout handler
TIMEOUT_DELAY == 10
\* cap and buffer applied to the retry-after header
RETRY_AFTER_CAP == 90
RETRY_AFTER_BUFFER == 2
\* wait used when attempt is outside retry_delays
FALLBACK_DELAY == 60

Callers == {"c1", "c2"}

\* what get_api_key() can return: no key configured, or a key
ApiKeys == {"", "gsk_key"}

Max(a, b) == IF a >= b THEN a ELSE b
Min(a, b) == IF a <= b THEN a ELSE b

\* ------------------------------------------------- retry-after header text
\* A header value is absent (None) or a text, modelled as a sequence of
\* one-character strings.
NoHeader == [present |-> FALSE, text |-> <<>>]
Header(txt) == [present |-> TRUE, text |-> txt]

Digits == {"0", "1", "2", "3", "4", "5", "6", "7", "8", "9"}

DigitVal(c) ==
  CASE c = "0" -> 0 [] c = "1" -> 1 [] c = "2" -> 2 [] c = "3" -> 3
    [] c = "4" -> 4 [] c = "5" -> 5 [] c = "6" -> 6 [] c = "7" -> 7
    [] c = "8" -> 8 [] c = "9" -> 9 [] OTHER -> 0

RECURSIVE DigitsVal(_)
DigitsVal(ds) ==
  IF ds = <<>> THEN 0
  ELSE 10 * DigitsVal(SubSeq(ds, 1, Len(ds) - 1)) + DigitVal(ds[Len(ds)])

AllDigits(ds) == ds # <<>> /\ \A i \in 1..Len(ds) : ds[i] \in Digits

\* int(text): [ok |-> FALSE] stands for the ValueError int() raises
ParseInt(txt) ==
  IF txt # <<>> /\ txt[1] \in {"-", "+"}
  THEN IF AllDigits(Tail(txt))
       THEN [ok |-> TRUE,
             val |-> IF txt[1] = "-" THEN 0 - DigitsVal(Tail(txt))
                     ELSE DigitsVal(Tail(txt))]
       ELSE [ok |-> FALSE, val |-> 0]
  ELSE IF AllDigits(txt)
       THEN [ok |-> TRUE, val |-> DigitsVal(txt)]
       ELSE [ok |-> FALSE, val |-> 0]

\* retry-after values the endpoint is taken to send with a 429
RetryAfterValues ==
  { NoHeader,
    Header(<<>>),
    Header(<<"7">>),
    Header(<<"0">>),
    Header(<<"-", "5">>),
    Header(<<"a", "b", "c">>),
    Header(<<"1", "0", "0">>) }

\* ---------------------------------------------------- waits of call_llm
\* rate gate: seconds to sleep before the first attempt (0: no sleep)
GateWaitTime(current_time, last) ==
  IF current_time - last < MIN_REQUEST_INTERVAL
  THEN MIN_REQUEST_INTERVAL - (current_time - last)
  ELSE 0

\* variant: the same delay at every attempt
ScheduleDelay_Flat(att) == FALLBACK_DELAY

\* wait_time of the HTTP 429 branch
ScheduleDelay(att) ==
  IF att < Len(retry_delays) THEN retry_delays[att + 1] ELSE FALLBACK_DELAY

\* variant: the retry-after header is ignored
RateLimitWait_IgnoresHeader(att, retry_after) == ScheduleDelay(att)

RateLimitWait(att, retry_after) ==
  IF retry_after.present /\ retry_after.text # <<>>
  THEN IF ParseInt(retry_after.text).ok
       THEN Min(ParseInt(retry_after.text).val + RETRY_AFTER_BUFFER,
                RETRY_AFTER_CAP)
       ELSE ScheduleDelay(att)
  ELSE ScheduleDelay(att)

\* =================================================================
\* Texts and JSON values
\* =================================================================
\* A Python str is a sequence of one-character strings; None is kept apart.
\* The texts of this model contain no '.', no exponent, and none of the
\* letters of the JSON literals NaN and Infinity.
PyNone == [none |-> TRUE, s |-> <<>>]
PyStr(txt) == [none |-> FALSE, s |-> txt]

\* characters removed by str.strip() and matched by \s
PyWhitespace == {" ", "\t", "\n", "\r", "\f"}
\* characters json.loads skips between tokens
JsonWhitespace == {" ", "\t", "\n", "\r"}

\* JSON values as json.loads builds them; a dict is a function from key
\* texts to values, a list a sequence of values
JStr(txt) == [t |-> "str", s |-> txt, n |-> 0, kv |-> <<>>, items |-> <<>>]
JNum(k) == [t |-> "num", s |-> <<>>, n |-> k, kv |-> <<>>, items |-> <<>>]
JLit(name) == [t |-> name, s |-> <<>>, n |-> 0, kv |-> <<>>, items |-> <<>>]
JObj(f) == [t |-> "obj", s |-> <<>>, n |-> 0, kv |-> f, items |-> <<>>]
JArr(xs) == [t |-> "arr", s |-> <<>>, n |-> 0, kv |-> <<>>, items |-> xs]

\* result of a scan: exc names the exception raised when ok = FALSE
Fail ==
  [ok |-> FALSE, val |-> JLit("null"), pos |-> 0, exc |-> "JSONDecodeError"]
Ok(v, p) == [ok |-> TRUE, val |-> v, pos |-> p, exc |-> "none"]
Raise(e) == [ok |-> FALSE, val |-> JLit("null"), pos |-> 0, exc |-> e]

\* sys.get_int_max_str_digits(): int() of a longer digit string raises
\* ValueError
INT_MAX_STR_DIGITS == 4300

CharAt(txt, i) == IF i >= 1 /\ i <= Len(txt) THEN txt[i] ELSE ""

RECURSIVE SkipWs(_, _, _)
SkipWs(txt, i, ws) ==
  IF i <= Len(txt) /\ txt[i] \in ws THEN SkipWs(txt, i + 1, ws) ELSE i

StartsWithAt(txt, i, word) ==
  /\ i + Len(word) - 1 <= Len(txt)
  /\ \A k \in 1..Len(word) : txt[i + k - 1] = word[k]

\* characters that are not one-character TLA+ strings
Backspace == "<backspace>"
CrossMark == "<U+274C>"
OtherNonAscii == "<U+other>"
NonAscii == {CrossMark, OtherNonAscii}

\* control characters, not allowed raw inside a JSON string
ControlChars == {"\t", "\n", "\r", "\f", Backspace}

\* the character a backslash escape stands for
SimpleEscapes ==
  ("\"" :> "\"") @@ ("\\" :> "\\") @@ ("/" :> "/") @@ ("b" :> Backspace)
    @@ ("f" :> "\f") @@ ("n" :> "\n") @@ ("r" :> "\r") @@ ("t" :> "\t")

HexDigits ==
  Digits \cup {"a", "b", "c", "d", "e", "f", "A", "B", "C", "D", "E", "F"}

LowerHex(c) ==
  CASE c = "A" -> "a" [] c = "B" -> "b" [] c = "C" -> "c" [] c = "D" -> "d"
    [] c = "E" -> "e" [] c = "F" -> "f" [] OTHER -> c

\* the four hex digits of the \u escape of a non-ASCII character
CrossMarkCode == <<"2", "7", "4", "c">>
OtherCode == <<"0", "0", "e", "9">>
CodeOf(c) == IF c = CrossMark THEN CrossMarkCode ELSE OtherCode

IsHex4(txt, i) ==
  /\ i + 3 <= Len(txt)
  /\ \A k \in i..(i + 3) : txt[k] \in HexDigits

\* the character of \uXXXX, the hex digits starting at position i
UnicodeChar(txt, i) ==
  IF [k \in 1..4 |-> LowerHex(txt[i + k - 1])] = CrossMarkCode
  THEN CrossMark ELSE OtherNonAscii

\* scanstring reads a string from left to right, from the position i after
\* the opening quote.  The definitions below give the same result position
\* by position: a backslash starts an escape when an even number of
\* backslashes precedes it in its run.
BackslashRun(txt, i, k) ==
  LET others == {m \in i..k : txt[m] # "\\"}
  IN IF others = {} THEN k - i + 1
     ELSE k - (CHOOSE m \in others : \A q \in others : q <= m)

EscapeStart(txt, i, k) ==
  /\ k >= i
  /\ txt[k] = "\\"
  /\ BackslashRun(txt, i, k) % 2 = 1

\* position k holds the character that follows the backslash of an escape
Escaped(txt, i, k) == k > i /\ EscapeStart(txt, i, k - 1)

\* position k holds one of the four hex digits of a \u escape
InUnicodeHex(txt, i, k) ==
  \E j \in 1..4 : k - j > i /\ txt[k - j] = "u" /\ Escaped(txt, i, k - j)

\* the closing quote: the first quote that no backslash escapes
ClosingQuote(txt, i) ==
  LET quotes == {k \in i..Len(txt) : txt[k] = "\"" /\ ~Escaped(txt, i, k)}
  IN IF quotes = {} THEN 0
     ELSE CHOOSE k \in quotes : \A q \in quotes : k <= q

\* no raw control character and no invalid escape in txt[i..e]
ValidStringBody(txt, i, e) ==
  \A k \in i..e :
    /\ txt[k] \notin ControlChars
    /\ EscapeStart(txt, i, k) =>
         \/ CharAt(txt, k + 1) \in DOMAIN SimpleEscapes
         \/ CharAt(txt, k + 1) = "u" /\ IsHex4(txt, k + 2)

\* what position k contributes to the decoded string
DecodeAt(txt, i, k) ==
  IF EscapeStart(txt, i, k) THEN <<>>
  ELSE IF Escaped(txt, i, k)
  THEN IF txt[k] = "u" THEN <<UnicodeChar(txt, k + 1)>>
       ELSE <<SimpleEscapes[txt[k]]>>
  ELSE IF InUnicodeHex(txt, i, k) THEN <<>>
  ELSE <<txt[k]>>

RECURSIVE DecodeRange(_, _, _, _)
DecodeRange(txt, i, lo, hi) ==
  IF lo > hi THEN <<>>
  ELSE IF lo = hi THEN DecodeAt(txt, i, lo)
  ELSE LET mid == (lo + hi) \div 2
       IN DecodeRange(txt, i, lo, mid) \o DecodeRange(txt, i, mid + 1, hi)

\* scanstring: i is the position after the opening quote
ScanString(txt, i) ==
  LET e == ClosingQuote(txt, i) IN
  IF e = 0 \/ ~ValidStringBody(txt, i, e - 1) THEN Fail
  ELSE Ok(JStr(DecodeRange(txt, i, i, e - 1)), e + 1)

\* the position after the run of digits that starts at i
DigitRun(txt, i) ==
  LET stops == {k \in i..Len(txt) : txt[k] \notin Digits}
  IN IF stops = {} THEN Len(txt) + 1
     ELSE CHOOSE k \in stops : \A m \in stops : k <= m

\* NUMBER_RE restricted to integers: -?(0|[1-9][0-9]*), then int(...)
ScanNumber(txt, i) ==
  LET neg == CharAt(txt, i) = "-"
      j == IF neg THEN i + 1 ELSE i
      e == IF CharAt(txt, j) = "0" THEN j + 1 ELSE DigitRun(txt, j)
  IN IF e = j THEN Fail
     ELSE IF e - j > INT_MAX_STR_DIGITS THEN Raise("ValueError")
     ELSE Ok(JNum(IF neg THEN 0 - DigitsVal(SubSeq(txt, j, e - 1))
                  ELSE DigitsVal(SubSeq(txt, j, e - 1))), e)

RECURSIVE ScanValue(_, _), ScanMembers(_, _, _), ScanElements(_, _, _)

\* scan_once
ScanValue(txt, i) ==
  LET c == CharAt(txt, i) IN
  IF c = "\"" THEN ScanString(txt, i + 1)
  ELSE IF c = "{" THEN
    LET j == SkipWs(txt, i + 1, JsonWhitespace) IN
    IF CharAt(txt, j) = "}" THEN Ok(JObj(<<>>), j + 1)
    ELSE IF CharAt(txt, j) = "\"" THEN ScanMembers(txt, j, <<>>)
    ELSE Fail
  ELSE IF c = "[" THEN
    LET j == SkipWs(txt, i + 1, JsonWhitespace) IN
    IF CharAt(txt, j) = "]" THEN Ok(JArr(<<>>), j + 1)
    ELSE ScanElements(txt, j, <<>>)
  ELSE IF StartsWithAt(txt, i, <<"n", "u", "l", "l">>) THEN Ok(JLit("null"), i + 4)
  ELSE IF StartsWithAt(txt, i, <<"t", "r", "u", "e">>) THEN Ok(JLit("true"), i + 4)
  ELSE IF StartsWithAt(txt, i, <<"f", "a", "l", "s", "e">>) THEN Ok(JLit("false"), i + 5)
  ELSE IF c = "-" \/ c \in Digits THEN ScanNumber(txt, i)
  ELSE Fail

\* JSONObject: i is at the opening quote of a key; a later pair with the
\* same key replaces the earlier one
ScanMembers(txt, i, acc) ==
  LET k == ScanString(txt, i + 1) IN
  IF ~k.ok THEN k
  ELSE
    LET c == SkipWs(txt, k.pos, JsonWhitespace) IN
    IF CharAt(txt, c) # ":" THEN Fail
    ELSE
      LET v == ScanValue(txt, SkipWs(txt, c + 1, JsonWhitespace)) IN
      IF ~v.ok THEN v
      ELSE
        LET e == SkipWs(txt, v.pos, JsonWhitespace)
            acc2 == (k.val.s :> v.val) @@ acc
        IN
        IF CharAt(txt, e) = "}" THEN Ok(JObj(acc2), e + 1)
        ELSE IF CharAt(txt, e) # "," THEN Fail
        ELSE
          LET q == SkipWs(txt, e + 1, JsonWhitespace) IN
          IF CharAt(txt, q) = "\"" THEN ScanMembers(txt, q, acc2) ELSE Fail

\* JSONArray: i is at the first character of an element
ScanElements(txt, i, acc) ==
  LET v == ScanValue(txt, i) IN
  IF ~v.ok THEN v
  ELSE
    LET e == SkipWs(txt, v.pos, JsonWhitespace) IN
    IF CharAt(txt, e) = "]" THEN Ok(JArr(Append(acc, v.val)), e + 1)
    ELSE IF CharAt(txt, e) # "," THEN Fail
    ELSE ScanElements(txt, SkipWs(txt, e + 1, JsonWhitespace), Append(acc, v.val))

\* json.loads: one value, surrounded by whitespace only
json_loads(txt) ==
  LET v == ScanValue(txt, SkipWs(txt, 1, JsonWhitespace)) IN
  IF ~v.ok THEN v
  ELSE IF SkipWs(txt, v.pos, JsonWhitespace) # Len(txt) + 1 THEN Fail
  ELSE v

\* ------------------------------------------------ clean_json_response
RECURSIVE LStrip(_)
LStrip(txt) ==
  IF txt # <<>> /\ txt[1] \in PyWhitespace THEN LStrip(Tail(txt)) ELSE txt

RECURSIVE RStrip(_)
RStrip(txt) ==
  IF txt # <<>> /\ txt[Len(txt)] \in PyWhitespace
  THEN RStrip(SubSeq(txt, 1, Len(txt) - 1)) ELSE txt

Strip(txt) == RStrip(LStrip(txt))

Contains(txt, word) == \E i \in 1..Len(txt) : StartsWithAt(txt, i, word)

\* the backquote character (a TLA+ string cannot contain it)
Backquote == "<backquote>"
Fence == <<Backquote, Backquote, Backquote>>

RECURSIVE SkipWsBack(_, _, _)
SkipWsBack(txt, i, ws) ==
  IF i >= 1 /\ txt[i] \in ws THEN SkipWsBack(txt, i - 1, ws) ELSE i

\* re.sub replaces the leftmost non-overlapping matches.  The definitions
\* below say, position by position, whether a character lies in a match.
\* first and last position of the run of backquotes that holds position k
RunStart(txt, k) ==
  LET others == {m \in 1..k : txt[m] # Backquote}
  IN IF others = {} THEN 1
     ELSE (CHOOSE m \in others : \A q \in others : q <= m) + 1

RunEnd(txt, k) ==
  LET others == {m \in k..Len(txt) : txt[m] # Backquote}
  IN IF others = {} THEN Len(txt)
     ELSE (CHOOSE m \in others : \A q \in others : m <= q) - 1

Txt_jso == <<"j", "s", "o">>

\* e is the last of three backquotes that "jso" follows: a match of three
\* backquotes, "jso", an optional "n" and \s* starts at e - 2
TaggedFenceEnd(txt, e) ==
  /\ e >= 3
  /\ e <= Len(txt)
  /\ \A m \in (e - 2)..e : txt[m] = Backquote
  /\ StartsWithAt(txt, e + 1, Txt_jso)

\* position k lies in a match of three backquotes, "jso", an optional "n"
\* and \s*
InTaggedFence(txt, k) ==
  \/ \E d \in 0..2 : TaggedFenceEnd(txt, k + d)
  \/ \E d \in 1..3 : TaggedFenceEnd(txt, k - d)
  \/ txt[k] = "n" /\ TaggedFenceEnd(txt, k - 4)
  \/ /\ txt[k] \in PyWhitespace
     /\ LET q == SkipWsBack(txt, k, PyWhitespace) IN
          \/ CharAt(txt, q) = "n" /\ TaggedFenceEnd(txt, q - 4)
          \/ CharAt(txt, q) = "o" /\ TaggedFenceEnd(txt, q - 3)

\* position k lies in a match of three backquotes and \s*: a run of
\* backquotes holds a match for each full group of three, and the
\* whitespace after the run belongs to the last match when no backquote is
\* left over
InFence(txt, k) ==
  \/ /\ txt[k] = Backquote
     /\ LET p == RunStart(txt, k)
            n == RunEnd(txt, k) - p + 1
        IN k - p < 3 * (n \div 3)
  \/ /\ txt[k] \in PyWhitespace
     /\ LET q == SkipWsBack(txt, k, PyWhitespace) IN
          /\ CharAt(txt, q) = Backquote
          /\ LET n == q - RunStart(txt, q) + 1
             IN n >= 3 /\ n % 3 = 0

\* the characters of txt[lo..hi] outside the matches
RECURSIVE KeepOutsideFence(_, _, _, _)
KeepOutsideFence(txt, lo, hi, tagged) ==
  IF lo > hi THEN <<>>
  ELSE IF lo = hi
  THEN IF (tagged /\ InTaggedFence(txt, lo)) \/ (~tagged /\ InFence(txt, lo))
       THEN <<>> ELSE <<txt[lo]>>
  ELSE LET mid == (lo + hi) \div 2
       IN KeepOutsideFence(txt, lo, mid, tagged)
            \o KeepOutsideFence(txt, mid + 1, hi, tagged)

\* re.sub of three backquotes, "jso", an optional "n" and \s* by ''
SubFenceTagged(txt) == KeepOutsideFence(txt, 1, Len(txt), TRUE)

\* re.sub of three backquotes and \s* by ''
SubFence(txt) == KeepOutsideFence(txt, 1, Len(txt), FALSE)

\* position k lies in a match of ,\s*X before its last character: it is the
\* comma, or whitespace between the comma and the closing bracket X (a match
\* holds one comma, so two matches never overlap)
InTrailingComma(txt, k, close) ==
  /\ CharAt(txt, SkipWs(txt, k + 1, PyWhitespace)) = close
  /\ \/ txt[k] = ","
     \/ /\ txt[k] \in PyWhitespace
        /\ CharAt(txt, SkipWsBack(txt, k, PyWhitespace)) = ","

\* the characters of txt[lo..hi] that re.sub(r',\s*X', 'X', txt) keeps
RECURSIVE KeepOutsideComma(_, _, _, _)
KeepOutsideComma(txt, lo, hi, close) ==
  IF lo > hi THEN <<>>
  ELSE IF lo = hi
  THEN IF InTrailingComma(txt, lo, close) THEN <<>> ELSE <<txt[lo]>>
  ELSE LET mid == (lo + hi) \div 2
       IN KeepOutsideComma(txt, lo, mid, close)
            \o KeepOutsideComma(txt, mid + 1, hi, close)

\* re.sub(r',\s*X', 'X', txt) for a closing bracket X
SubTrailingComma(txt, close) == KeepOutsideComma(txt, 1, Len(txt), close)

\* str.find / str.rfind, 1-based; 0 when the character is absent
Find(txt, c) ==
  IF \E i \in 1..Len(txt) : txt[i] = c
  THEN CHOOSE i \in 1..Len(txt) : txt[i] = c /\ \A k \in 1..(i - 1) : txt[k] # c
  ELSE 0

\* variant: the first occurrence instead of the last
RFind_First(txt, c) ==
  IF \E i \in 1..Len(txt) : txt[i] = c
  THEN CHOOSE i \in 1..Len(txt) : txt[i] = c /\ \A k \in 1..(i - 1) : txt[k] # c
  ELSE 0

RFind(txt, c) ==
  IF \E i \in 1..Len(txt) : txt[i] = c
  THEN CHOOSE i \in 1..Len(txt) : txt[i] = c /\ \A k \in (i + 1)..Len(txt) : txt[k] # c
  ELSE 0

EmptyObjectText == <<"{", "}">>

StripFences(txt) ==
  IF Contains(txt, Fence) THEN SubFence(SubFenceTagged(txt)) ELSE txt

\* variant: the empty text, not "{}", when no object is found
ExtractObject_EmptyText(cleaned) ==
  LET start == Find(cleaned, "{")
      end == RFind(cleaned, "}")
  IN IF start # 0 /\ end >= start
     THEN SubTrailingComma(
            SubTrailingComma(SubSeq(cleaned, start, end), "}"), "]")
     ELSE <<>>

\* the slice cleaned[start:end] with its trailing commas removed when a '{'
\* is found and the last '}' is after it, else "{}"
ExtractObject(cleaned) ==
  LET start == Find(cleaned, "{")
      end == RFind(cleaned, "}")
  IN IF start # 0 /\ end >= start
     THEN SubTrailingComma(
            SubTrailingComma(SubSeq(cleaned, start, end), "}"), "]")
     ELSE EmptyObjectText

clean_json_response(response) ==
  IF response.none \/ response.s = <<>> THEN EmptyObjectText
  ELSE ExtractObject(StripFences(Strip(response.s)))

\* ---------------------------------------------------- safe_json_parse
\* the default argument: None, or a dict
NoDefault == [given |-> FALSE, d |-> <<>>]
DefaultDict(f) == [given |-> TRUE, d |-> f]

RawLimit == 500
Txt_error == <<"e", "r", "r", "o", "r">>
Txt_raw == <<"r", "a", "w">>
\* the text of the JSONDecodeError is not modelled
ParseFailedMessage == <<"JSON parse failed">>

Prefix(txt, k) == SubSeq(txt, 1, Min(k, Len(txt)))

ReplaceQuotes(txt) == [i \in 1..Len(txt) |-> IF txt[i] = "'" THEN "\"" ELSE txt[i]]

SyntheticError(response) ==
  (Txt_error :> JStr(ParseFailedMessage))
    @@ (Txt_raw :> JStr(Prefix(response.s, RawLimit)))

\* default or {...}: None and the empty dict are both falsy
DefaultOr(default, other) ==
  IF default.given /\ DOMAIN default.d # {} THEN default.d ELSE other

\* the exception that escapes safe_json_parse, "none" when it returns:
\* the first handler catches json.JSONDecodeError only, the second one
\* is a bare except
EscapingException(response) ==
  LET first == json_loads(clean_json_response(response))
  IN IF first.ok \/ first.exc = "JSONDecodeError" THEN "none" ELSE first.exc

\* the value safe_json_parse returns when no exception escapes
safe_json_parse(response, default) ==
  LET cleaned == clean_json_response(response)
      first == json_loads(cleaned)
      second == json_loads(ReplaceQuotes(cleaned))
  IN IF first.ok THEN first.val.kv
     ELSE IF second.ok THEN second.val.kv
     ELSE DefaultOr(default, SyntheticError(response))

\* the type of the value safe_json_parse returns: json.loads returns
\* whatever value the text denotes
ReturnedType(response) ==
  LET cleaned == clean_json_response(response)
      first == json_loads(cleaned)
      second == json_loads(ReplaceQuotes(cleaned))
  IN IF first.ok THEN first.val.t
     ELSE IF second.ok THEN second.val.t
     ELSE "obj"

\* ------------------------------------------------------ input texts
Txt_NotJson ==
  <<"n", "o", "t", " ", "j", "s", "o", "n", " ", "a", "t", " ", "a", "l",
    "l">>

Txt_TrailingComma ==
  <<"{", "\"", "a", "\"", ":", " ", "1", ",", "}">>

Txt_Plain ==
  <<"{", "\"", "a", "\"", ":", " ", "1", "}">>

Txt_Fenced ==
  <<Backquote, Backquote, Backquote, "j", "s", "o", "n", "\n", "{", "\"",
    "a", "\"", ":", " ", "1", "}", "\n", Backquote, Backquote, Backquote>>

Txt_FencedBare ==
  <<Backquote, Backquote, Backquote, "\n", "{", "\"", "a", "\"", ":", " ",
    "1", "}", "\n", Backquote, Backquote, Backquote>>

Txt_Prose ==
  <<"S", "u", "r", "e", ":", " ", "{", "\"", "a", "\"", ":", " ", "1", "}",
    " ", "o", "k">>

Txt_SingleQuoted ==
  <<"{", "'", "a", "'", ":", " ", "1", "}">>

Txt_Broken ==
  <<"{", "n", "o", "t", " ", "j", "s", "o", "n", "}">>

Txt_TwoCommas ==
  <<"{", "\"", "a", "\"", ":", " ", "1", ",", ",", "}">>

Txt_ListComma ==
  <<"{", "\"", "a", "\"", ":", " ", "[", "1", ",", " ", "]", ",", " ", "}">>

Txt_ErrorObject ==
  <<"{", "\"", "e", "r", "r", "o", "r", "\"", ":", " ", "\"", "x", "\"", "}">>

Txt_Reversed ==
  <<"}", " ", "n", "o", "t", " ", "j", "s", "o", "n", " ", "{">>

SampleTexts ==
  { Txt_NotJson,
    Txt_TrailingComma,
    Txt_Plain,
    Txt_Fenced,
    Txt_FencedBare,
    Txt_Prose,
    Txt_SingleQuoted,
    Txt_Broken,
    Txt_TwoCommas,
    Txt_ListComma,
    Txt_ErrorObject,
    Txt_Reversed }

\* every text of at most MaxTextLen characters over TextAlphabet
TextAlphabet ==
  {"{", "}", "[", "]", ",", ":", "\"", "'", "a", "1", " ", Backquote, "\\"}

ShortTexts ==
  UNION { [1..k -> TextAlphabet] : k \in 0..MaxTextLen }

\* texts longer than RawLimit: a head followed by a run of filler
Filler(k) == [i \in 1..k |-> "x"]
LongTexts ==
  { h \o Filler(RawLimit + PadLen) \o t :
      h \in {<<>>, <<"{">>}, t \in {<<>>, <<"}">>} }

\* a well-formed object whose string value holds a comma and a brace
Txt_CommaInString ==
  <<"{", "\"", "a", "\"", ":", " ", "\"", ",", "}", "\"", "}">>

Txt_ListObject ==
  <<"{", "\"", "a", "\"", ":", " ", "[", "1", "]", "}">>

WellFormedObjects ==
  { Txt_Plain, Txt_ErrorObject, Txt_CommaInString, Txt_ListObject,
    EmptyObjectText }

\* an object inside optional fence markers inside optional prose
ProseBefore == { <<>>, <<"S", "u", "r", "e", ":", " ">> }
ProseAfter == { <<>>, <<" ", "o", "k">> }
FenceOpens ==
  { <<>>, Fence \o <<"\n">>, Fence \o <<"j", "s", "o", "n", "\n">> }
FenceCloses == { <<>>, <<"\n">> \o Fence }

Wrappings ==
  [pre : ProseBefore, open : FenceOpens, obj : WellFormedObjects,
   close : FenceCloses, post : ProseAfter]

Wrap(w) == w.pre \o w.open \o w.obj \o w.close \o w.post

WrappedTexts == { Wrap(w) : w \in Wrappings }

\* position k of txt is outside every string literal (txt has no escapes)
OutsideString(txt, k) ==
  Cardinality({i \in 1..(k - 1) : txt[i] = "\""}) % 2 = 0

\* the closing brackets of an object text
ClosingPositions(txt) ==
  { k \in 1..Len(txt) : txt[k] \in {"}", "]"} /\ OutsideString(txt, k) }

InsertBefore(txt, k, ins) ==
  SubSeq(txt, 1, k - 1) \o ins \o SubSeq(txt, k, Len(txt))

\* the texts that differ from obj by one comma, optionally followed by
\* whitespace, right before a closing bracket
CommaDefects(obj) ==
  { InsertBefore(obj, k, ins) :
      k \in ClosingPositions(obj), ins \in {<<",">>, <<",", " ">>, <<",", "\n">>} }

TrailingCommaTexts == UNION { CommaDefects(obj) : obj \in WellFormedObjects }

\* an object whose value is an integer of more than INT_MAX_STR_DIGITS
\* digits
Txt_HugeNumber ==
  <<"{", "\"", "a", "\"", ":">>
    \o [i \in 1..(INT_MAX_STR_DIGITS + 1) |-> "1"] \o <<"}">>

\* strings with backslash escapes
Txt_Escapes ==
  <<"{", "\"", "a", "\"", ":", " ", "\"", "\\", "n", "\\", "\"", "\\",
    "u", "2", "7", "4", "C", "\\", "\\", "\"", "}">>

Txt_BadEscape ==
  <<"{", "\"", "a", "\"", ":", " ", "\"", "\\", "x", "\"", "}">>

InputTexts ==
  ShortTexts \cup SampleTexts \cup LongTexts \cup WrappedTexts
    \cup TrailingCommaTexts
    \cup {Txt_HugeNumber, Txt_Escapes, Txt_BadEscape}

Txt_k == <<"k">>
Defaults == { NoDefault, DefaultDict(<<>>), DefaultDict(Txt_k :> JNum(1)) }

\* ------------------------------------------------ endpoint behaviour
\* What one requests.post can produce.  kind: "401", "429", "200" (any
\* 2xx), "500" (any other status, raised by raise_for_status), "timeout"
\* (requests.exceptions.Timeout), "exc" (any other RequestException).
\* hdr: the retry-after header of a 429.  body: the shape of a 2xx JSON
\* body.  has429: whether str(e) contains "429" or "Too Many Requests".
Resp(k, h, b, x) == [kind |-> k, hdr |-> h, body |-> b, has429 |-> x]

\* 2xx bodies: the content is a text ("ok"), a step of the path is absent,
\* or the content is null
BodyShapes ==
  {"ok", "no_choices", "empty_choices", "no_message", "no_content",
   "null_content"}

Responses ==
  { Resp("401", NoHeader, "none", FALSE) }
  \cup { Resp("429", h, "none", FALSE) : h \in RetryAfterValues }
  \cup { Resp("200", NoHeader, b, FALSE) : b \in BodyShapes }
  \cup { Resp("500", NoHeader, "none", FALSE) }
  \cup { Resp("timeout", NoHeader, "none", FALSE) }
  \cup { Resp("exc", NoHeader, "none", x) : x \in BOOLEAN }

\* seconds between the send and the moment requests.post returns or raises:
\* an immediate answer and the slowest one
Latencies == {0, MaxLatency}
LatenciesOf(r, ds) ==
  IF r.kind = "timeout" THEN {POST_TIMEOUT} ELSE ds

\* ------------------------------------------- texts call_llm returns

Msg_NoKey ==
  <<"A", "P", "I", " ", "k", "e", "y", " ", "n", "o", "t", " ", "c", "o",
    "n", "f", "i", "g", "u", "r", "e", "d">>

Msg_Auth ==
  <<CrossMark, " ", "I", "n", "v", "a", "l", "i", "d", " ", "A", "P", "I",
    " ", "K", "e", "y", " ", "(", "4", "0", "1", " ", "U", "n", "a", "u",
    "t", "h", "o", "r", "i", "z", "e", "d", ")", "\n", "\n", "P", "l", "e",
    "a", "s", "e", " ", "c", "h", "e", "c", "k", " ", "y", "o", "u", "r",
    " ", "G", "R", "O", "Q", "_", "A", "P", "I", "_", "K", "E", "Y", ":",
    "\n", "1", ".", " ", "G", "o", " ", "t", "o", " ", "h", "t", "t", "p",
    "s", ":", "/", "/", "c", "o", "n", "s", "o", "l", "e", ".", "g", "r",
    "o", "q", ".", "c", "o", "m", "/", "k", "e", "y", "s", "\n", "2", ".",
    " ", "C", "r", "e", "a", "t", "e", " ", "a", " ", "n", "e", "w", " ",
    "A", "P", "I", " ", "k", "e", "y", "\n", "3", ".", " ", "U", "p", "d",
    "a", "t", "e", " ", ".", "s", "t", "r", "e", "a", "m", "l", "i", "t",
    "/", "s", "e", "c", "r", "e", "t", "s", ".", "t", "o", "m", "l", " ",
    "w", "i", "t", "h", ":", "\n", " ", " ", " ", "G", "R", "O", "Q", "_",
    "A", "P", "I", "_", "K", "E", "Y", " ", "=", " ", "\"", "g", "s", "k",
    "_", "y", "o", "u", "r", "_", "n", "e", "w", "_", "k", "e", "y", "_",
    "h", "e", "r", "e", "\"">>

\* variant: the timeout carries the message of the rate limit
Msg_Timeout_AsRateLimit ==
  <<"R", "a", "t", "e", " ", "l", "i", "m", "i", "t", " ", "e", "x", "c",
    "e", "e", "d", "e", "d", ".", " ", "P", "l", "e", "a", "s", "e", " ",
    "w", "a", "i", "t", " ", "2", " ", "m", "i", "n", "u", "t", "e", "s",
    " ", "a", "n", "d", " ", "t", "r", "y", " ", "a", "g", "a", "i", "n",
    ".">>

Msg_Timeout ==
  <<"R", "e", "q", "u", "e", "s", "t", " ", "t", "i", "m", "e", "d", " ",
    "o", "u", "t", ".", " ", "T", "h", "e", " ", "7", "0", "b", " ", "m",
    "o", "d", "e", "l", " ", "m", "a", "y", " ", "b", "e", " ", "s", "l",
    "o", "w", ".", " ", "P", "l", "e", "a", "s", "e", " ", "t", "r", "y",
    " ", "a", "g", "a", "i", "n", ".">>

Msg_RateLimit ==
  <<"R", "a", "t", "e", " ", "l", "i", "m", "i", "t", " ", "e", "x", "c",
    "e", "e", "d", "e", "d", ".", " ", "P", "l", "e", "a", "s", "e", " ",
    "w", "a", "i", "t", " ", "2", " ", "m", "i", "n", "u", "t", "e", "s",
    " ", "a", "n", "d", " ", "t", "r", "y", " ", "a", "g", "a", "i", "n",
    ".">>

Msg_RateLimitAfterRetries ==
  <<"R", "a", "t", "e", " ", "l", "i", "m", "i", "t", " ", "e", "x", "c",
    "e", "e", "d", "e", "d", " ", "a", "f", "t", "e", "r", " ", "r", "e",
    "t", "r", "i", "e", "s", ".", " ", "P", "l", "e", "a", "s", "e", " ",
    "w", "a", "i", "t", " ", "2", " ", "m", "i", "n", "u", "t", "e", "s",
    " ", "a", "n", "d", " ", "t", "r", "y", " ", "a", "g", "a", "i", "n",
    ".">>

Msg_TransportPrefix ==
  <<"A", "P", "I", " ", "r", "e", "q", "u", "e", "s", "t", " ", "f", "a",
    "i", "l", "e", "d", ":", " ">>

Msg_MalformedPrefix ==
  <<"I", "n", "v", "a", "l", "i", "d", " ", "A", "P", "I", " ", "r", "e",
    "s", "p", "o", "n", "s", "e", ":", " ">>

Txt_KeyChoices ==
  <<"'", "c", "h", "o", "i", "c", "e", "s", "'">>

Txt_KeyMessage ==
  <<"'", "m", "e", "s", "s", "a", "g", "e", "'">>

Txt_KeyContent ==
  <<"'", "c", "o", "n", "t", "e", "n", "t", "'">>

Txt_IndexError ==
  <<"l", "i", "s", "t", " ", "i", "n", "d", "e", "x", " ", "o", "u", "t",
    " ", "o", "f", " ", "r", "a", "n", "g", "e">>

Txt_HTTPError ==
  <<"5", "0", "0", " ", "S", "e", "r", "v", "e", "r", " ", "E", "r", "r",
    "o", "r", ":", " ", "I", "n", "t", "e", "r", "n", "a", "l", " ", "S",
    "e", "r", "v", "e", "r", " ", "E", "r", "r", "o", "r", " ", "f", "o",
    "r", " ", "u", "r", "l", ":", " ", "h", "t", "t", "p", "s", ":", "/",
    "/", "a", "p", "i", ".", "g", "r", "o", "q", ".", "c", "o", "m", "/",
    "o", "p", "e", "n", "a", "i", "/", "v", "1", "/", "c", "h", "a", "t",
    "/", "c", "o", "m", "p", "l", "e", "t", "i", "o", "n", "s">>

Txt_ConnRefused ==
  <<"C", "o", "n", "n", "e", "c", "t", "i", "o", "n", " ", "r", "e", "f",
    "u", "s", "e", "d">>

Txt_TrickyError ==
  <<"b", "a", "d", " ", "\"", "r", "e", "p", "l", "y", "\"", " ", "{", "'",
    "x", "'", ":", " ", "[", "1", ",", " ", "]", ",", " ", "}", " ",
    Backquote, Backquote, Backquote, "j", "s", "o", "n", " ", "\\", " ",
    CrossMark, "\n">>

Txt_TooMany ==
  <<"4", "2", "9", " ", "C", "l", "i", "e", "n", "t", " ", "E", "r", "r",
    "o", "r", ":", " ", "T", "o", "o", " ", "M", "a", "n", "y", " ", "R",
    "e", "q", "u", "e", "s", "t", "s">>

Txt_Address ==
  <<"C", "o", "n", "n", "e", "c", "t", "i", "o", "n", " ", "a", "b", "o",
    "r", "t", "e", "d", " ", "a", "t", " ", "0", "x", "7", "f", "1", "4",
    "2", "9", "a", "3">>

Txt_ErrorOpen ==
  <<"{", "\"", "e", "r", "r", "o", "r", "\"", ":", " ", "\"">>

Txt_ErrorClose ==
  <<"\"", "}">>

\* json.dumps of one character of a string (ensure_ascii)
EscapeChar(c) ==
  CASE c = "\"" -> <<"\\", "\"">>
    [] c = "\\" -> <<"\\", "\\">>
    [] c = "\n" -> <<"\\", "n">>
    [] c = "\r" -> <<"\\", "r">>
    [] c = "\t" -> <<"\\", "t">>
    [] c = "\f" -> <<"\\", "f">>
    [] c = Backspace -> <<"\\", "b">>
    [] c \in NonAscii -> <<"\\", "u">> \o CodeOf(c)
    [] OTHER -> <<c>>

\* json.dumps of the characters lo..hi of a string
RECURSIVE EscapeRange(_, _, _)
EscapeRange(txt, lo, hi) ==
  IF lo > hi THEN <<>>
  ELSE IF lo = hi THEN EscapeChar(txt[lo])
  ELSE LET mid == (lo + hi) \div 2
       IN EscapeRange(txt, lo, mid) \o EscapeRange(txt, mid + 1, hi)

\* variant: the message itself, not a JSON object
ErrorJson_Bare(msg) == msg

\* json.dumps({"error": msg})
ErrorJson(msg) ==
  Txt_ErrorOpen \o EscapeRange(msg, 1, Len(msg)) \o Txt_ErrorClose

\* str(e) of the KeyError or IndexError of
\* result['choices'][0]['message']['content']
LookupErrorText(body) ==
  CASE body = "no_choices" -> Txt_KeyChoices
    [] body = "empty_choices" -> Txt_IndexError
    [] body = "no_message" -> Txt_KeyMessage
    [] OTHER -> Txt_KeyContent

\* str(e) of the RequestException r stands for
ExceptionTexts(r) ==
  IF r.kind = "500" THEN {Txt_HTTPError}
  ELSE IF r.has429 THEN {Txt_TooMany, Txt_Address}
  ELSE {Txt_ConnRefused, Txt_TrickyError}

\* content of a well-formed 2xx body, before .strip()
Contents == {Txt_Plain, Txt_Fenced, Txt_NotJson, <<" ">> \o Txt_ErrorObject}

\* the message of an error outcome; r is the last response received
Messages(res, r) ==
  CASE res = "NoKey" -> {Msg_NoKey}
    [] res = "Auth" -> {Msg_Auth}
    [] res = "Timeout" -> {Msg_Timeout}
    [] res = "RateLimit" -> {Msg_RateLimit}
    [] res = "RateLimitAfterRetries" -> {Msg_RateLimitAfterRetries}
    [] res = "Transport" ->
         {Msg_TransportPrefix \o e : e \in ExceptionTexts(r)}
    [] res = "Malformed" -> {Msg_MalformedPrefix \o LookupErrorText(r.body)}
    [] OTHER -> {}

\* the strings call_llm can return for an outcome
ReturnValues(res, r) ==
  IF res = "Success" THEN {Strip(c) : c \in Contents}
  ELSE {ErrorJson(m) : m \in Messages(res, r)}

\* =================================================================
\* Uploaded documents (pdf_utils.py, handle_file_upload of app.py)
\* =================================================================
\* the NUL character
Nul == "<NUL>"

Diag_ReadPdf ==
  <<"E", "r", "r", "o", "r", " ", "r", "e", "a", "d", "i", "n", "g", " ",
    "f", "i", "l", "e", ":", " ">>

Diag_NoPdfText ==
  <<"C", "o", "u", "l", "d", " ", "n", "o", "t", " ", "e", "x", "t", "r",
    "a", "c", "t", " ", "t", "e", "x", "t", " ", "f", "r", "o", "m", " ",
    "P", "D", "F", ".", " ", "P", "l", "e", "a", "s", "e", " ", "i", "n",
    "s", "t", "a", "l", "l", ":", " ", "p", "i", "p", " ", "i", "n", "s",
    "t", "a", "l", "l", " ", "p", "d", "f", "p", "l", "u", "m", "b", "e",
    "r", " ", "P", "y", "P", "D", "F", "2", " ", "p", "y", "m", "u", "p",
    "d", "f">>

Diag_NoDocxLibrary ==
  <<"P", "l", "e", "a", "s", "e", " ", "i", "n", "s", "t", "a", "l", "l",
    " ", "p", "y", "t", "h", "o", "n", "-", "d", "o", "c", "x", ":", " ",
    "p", "i", "p", " ", "i", "n", "s", "t", "a", "l", "l", " ", "p", "y",
    "t", "h", "o", "n", "-", "d", "o", "c", "x">>

Diag_Docx ==
  <<"E", "r", "r", "o", "r", " ", "e", "x", "t", "r", "a", "c", "t", "i",
    "n", "g", " ", "D", "O", "C", "X", ":", " ">>

Diag_ReadTxt ==
  <<"E", "r", "r", "o", "r", " ", "r", "e", "a", "d", "i", "n", "g", " ",
    "T", "X", "T", " ", "f", "i", "l", "e", ":", " ">>

Diag_Unsupported ==
  <<"U", "n", "s", "u", "p", "p", "o", "r", "t", "e", "d", " ", "f", "o",
    "r", "m", "a", "t", ".", " ", "P", "l", "e", "a", "s", "e", " ", "u",
    "p", "l", "o", "a", "d", " ", "P", "D", "F", ",", " ", "D", "O", "C",
    "X", ",", " ", "o", "r", " ", "T", "X", "T", ".">>

Diag_Processing ==
  <<"E", "r", "r", "o", "r", " ", "p", "r", "o", "c", "e", "s", "s", "i",
    "n", "g", " ", "f", "i", "l", "e", ":", " ">>

Txt_Error ==
  <<"E", "r", "r", "o", "r">>

Txt_CouldNot ==
  <<"C", "o", "u", "l", "d", " ", "n", "o", "t">>

Txt_BadFile ==
  <<"b", "a", "d", " ", "f", "i", "l", "e">>

Ext_pdf ==
  <<".", "p", "d", "f">>

Ext_docx ==
  <<".", "d", "o", "c", "x">>

Ext_txt ==
  <<".", "t", "x", "t">>

Name_pdf ==
  <<"c", "v", ".", "p", "d", "f">>

Name_PDF ==
  <<"C", "V", ".", "P", "D", "F">>

Name_docx ==
  <<"c", "v", ".", "d", "o", "c", "x">>

Name_txt ==
  <<"c", "v", ".", "t", "x", "t">>

Page_Hello ==
  <<"H", "e", "l", "l", "o", " ", " ", "w", "o", "r", "l", "d">>

Page_ErrorLog ==
  <<"E", "r", "r", "o", "r", " ", "l", "o", "g", " ", "o", "f", " ", "t",
    "h", "e", " ", "b", "u", "i", "l", "d">>

Page_Messy ==
  <<"a", " ", "\n", " ", "\n", "\n", "b", "\f", Nul>>

Txt_SampleJD ==
  <<"S", "a", "m", "p", "l", "e", " ", "J", "D">>

Txt_Pasted ==
  <<"P", "a", "s", "t", "e", "d", " ", "t", "e", "x", "t">>

\* str.lower() of the characters of the file names
Lower(c) ==
  CASE c = "C" -> "c" [] c = "V" -> "v" [] c = "P" -> "p" [] c = "D" -> "d"
    [] c = "F" -> "f" [] c = "O" -> "o" [] c = "X" -> "x" [] c = "T" -> "t"
    [] OTHER -> c

LowerText(txt) == [i \in 1..Len(txt) |-> Lower(txt[i])]

EndsWith(txt, suffix) ==
  /\ Len(suffix) <= Len(txt)
  /\ SubSeq(txt, Len(txt) - Len(suffix) + 1, Len(txt)) = suffix

StartsWith(txt, prefix) == StartsWithAt(txt, 1, prefix)

\* re.sub(r'\n\s*\n', '\n\n', txt) from position i: \s* is greedy, so a
\* match ends at the last newline of the whitespace that follows
RECURSIVE CollapseBlankLines(_, _)
CollapseBlankLines(txt, i) ==
  IF i > Len(txt) THEN <<>>
  ELSE LET e == SkipWs(txt, i + 1, PyWhitespace)
           ends == {j \in (i + 1)..(e - 1) : txt[j] = "\n"}
       IN IF txt[i] = "\n" /\ ends # {}
          THEN <<"\n", "\n">>
                 \o CollapseBlankLines(
                      txt, (CHOOSE j \in ends : \A q \in ends : q <= j) + 1)
          ELSE <<txt[i]>> \o CollapseBlankLines(txt, i + 1)

\* re.sub(r' +', ' ', txt): a space after a space is dropped
RECURSIVE CollapseSpaces(_, _)
CollapseSpaces(txt, i) ==
  IF i > Len(txt) THEN <<>>
  ELSE IF txt[i] = " " /\ i > 1 /\ txt[i - 1] = " "
  THEN CollapseSpaces(txt, i + 1)
  ELSE <<txt[i]>> \o CollapseSpaces(txt, i + 1)

\* text.replace('\x00', '') and text.replace('\x0c', '\n')
RECURSIVE ReplaceControls(_, _)
ReplaceControls(txt, i) ==
  IF i > Len(txt) THEN <<>>
  ELSE IF txt[i] = Nul THEN ReplaceControls(txt, i + 1)
  ELSE IF txt[i] = "\f" THEN <<"\n">> \o ReplaceControls(txt, i + 1)
  ELSE <<txt[i]>> \o ReplaceControls(txt, i + 1)

clean_text(txt) ==
  IF txt = <<>> THEN <<>>
  ELSE Strip(ReplaceControls(
               CollapseSpaces(CollapseBlankLines(txt, 1), 1), 1))

\* an uploaded file: its name, whether file.read() raises, whether the
\* parser raises on its bytes, and the text of its pages (paragraphs)
UploadedFile(n, r, q, ps) == [name |-> n, read |-> r, parse |-> q, pages |-> ps]

\* text += page_text + "\n" for every page whose text is not empty
RECURSIVE JoinNonEmpty(_)
JoinNonEmpty(ps) ==
  IF ps = <<>> THEN <<>>
  ELSE (IF Head(ps) = <<>> THEN <<>> ELSE Head(ps) \o <<"\n">>)
         \o JoinNonEmpty(Tail(ps))

\* text += page_text + "\n" for every page
RECURSIVE JoinAll(_)
JoinAll(ps) ==
  IF ps = <<>> THEN <<>> ELSE Head(ps) \o <<"\n">> \o JoinAll(Tail(ps))

Libraries == {"pdfplumber", "PyPDF2", "fitz", "docx"}

\* text after the attempt with one PDF library: unchanged when the import
\* or the parser fails
PdfAttempt(acc, file, libs, lib) ==
  IF lib \notin libs \/ file.parse = "raises" THEN acc
  ELSE acc \o (IF lib = "fitz" THEN JoinAll(file.pages)
               ELSE JoinNonEmpty(file.pages))

\* the attempt with this library returns clean_text(text)
PdfReturns(acc, file, libs, lib) ==
  /\ lib \in libs
  /\ file.parse = "ok"
  /\ Strip(PdfAttempt(acc, file, libs, lib)) # <<>>

extract_text_from_pdf(file, libs) ==
  IF file.read = "raises" THEN Diag_ReadPdf \o Txt_BadFile
  ELSE
    LET t1 == PdfAttempt(<<>>, file, libs, "pdfplumber")
        t2 == PdfAttempt(t1, file, libs, "PyPDF2")
        t3 == PdfAttempt(t2, file, libs, "fitz")
    IN IF PdfReturns(<<>>, file, libs, "pdfplumber") THEN clean_text(t1)
       ELSE IF PdfReturns(t1, file, libs, "PyPDF2") THEN clean_text(t2)
       ELSE IF PdfReturns(t2, file, libs, "fitz") THEN clean_text(t3)
       ELSE IF t3 # <<>> THEN t3
       ELSE Diag_NoPdfText

extract_text_from_docx(file, libs) ==
  IF "docx" \notin libs THEN Diag_NoDocxLibrary
  ELSE IF file.read = "raises" \/ file.parse = "raises"
  THEN Diag_Docx \o Txt_BadFile
  ELSE clean_text(JoinAll(file.pages))

\* content.decode(...) of the bytes read: the pages of the file as one text
RECURSIVE Concat(_)
Concat(ps) == IF ps = <<>> THEN <<>> ELSE Head(ps) \o Concat(Tail(ps))

extract_text_from_txt(file) ==
  IF file.read = "raises" THEN Diag_ReadTxt \o Txt_BadFile
  ELSE Concat(file.pages)

\* file is an uploaded file (the caller passes it only when it is not None)
extract_text_from_file(file, filename, libs) ==
  LET filename_lower == LowerText(filename) IN
  IF EndsWith(filename_lower, Ext_pdf) THEN extract_text_from_pdf(file, libs)
  ELSE IF EndsWith(filename_lower, Ext_docx)
  THEN extract_text_from_docx(file, libs)
  ELSE IF EndsWith(filename_lower, Ext_txt) THEN extract_text_from_txt(file)
  ELSE Diag_Unsupported

\* the failure diagnostics extract_text_from_file can return
DiagnosticTexts ==
  { Diag_ReadPdf \o Txt_BadFile, Diag_NoPdfText, Diag_NoDocxLibrary,
    Diag_Docx \o Txt_BadFile, Diag_ReadTxt \o Txt_BadFile, Diag_Unsupported,
    Diag_Processing \o Txt_BadFile }

\* st.file_uploader(type=["pdf", "docx", "txt"]) accepts these names only
FileNames == {Name_pdf, Name_PDF, Name_docx, Name_txt}

PageTexts == { <<>>, <<<<>>>>, <<Page_Hello>>, <<Page_ErrorLog>>,
               <<Page_Messy, Page_Hello>> }

UploadedFiles ==
  { UploadedFile(n, r, q, ps) :
      n \in FileNames, r \in {"ok", "raises"}, q \in {"ok", "raises"},
      ps \in PageTexts }

NoFile == UploadedFile(<<>>, "none", "none", <<>>)

\* =================================================================
\* calculate_match_score_detailed: grades from the score
\* =================================================================
Txt_match_summary ==
  <<"m", "a", "t", "c", "h", "_", "s", "u", "m", "m", "a", "r", "y">>

Txt_overall_score ==
  <<"o", "v", "e", "r", "a", "l", "l", "_", "s", "c", "o", "r", "e">>

Txt_recommendation ==
  <<"r", "e", "c", "o", "m", "m", "e", "n", "d", "a", "t", "i", "o", "n">>

Txt_grade ==
  <<"g", "r", "a", "d", "e">>

Txt_StronglyRecommend ==
  <<"S", "T", "R", "O", "N", "G", "L", "Y", " ", "R", "E", "C", "O", "M",
    "M", "E", "N", "D">>

Txt_Recommend ==
  <<"R", "E", "C", "O", "M", "M", "E", "N", "D">>

Txt_Consider ==
  <<"C", "O", "N", "S", "I", "D", "E", "R">>

Txt_ConsiderWithReservations ==
  <<"C", "O", "N", "S", "I", "D", "E", "R", " ", "W", "I", "T", "H", " ",
    "R", "E", "S", "E", "R", "V", "A", "T", "I", "O", "N", "S">>

Txt_NotRecommended ==
  <<"N", "O", "T", " ", "R", "E", "C", "O", "M", "M", "E", "N", "D", "E",
    "D">>

Txt_GradeA ==
  <<"A">>

Txt_GradeBPlus ==
  <<"B", "+">>

Txt_GradeB ==
  <<"B">>

Txt_GradeC ==
  <<"C">>

Txt_GradeD ==
  <<"D">>

Txt_ScoreOpen ==
  <<"{", "\"", "m", "a", "t", "c", "h", "_", "s", "u", "m", "m", "a", "r",
    "y", "\"", ":", " ", "{", "\"", "o", "v", "e", "r", "a", "l", "l", "_",
    "s", "c", "o", "r", "e", "\"", ":", " ">>

Txt_GradeOpen ==
  <<",", " ", "\"", "g", "r", "a", "d", "e", "\"", ":", " ", "\"">>

Txt_ScoreClose ==
  <<"\"", "}", "}">>

Txt_NoScore ==
  <<"{", "\"", "m", "a", "t", "c", "h", "_", "s", "u", "m", "m", "a", "r",
    "y", "\"", ":", " ", "{", "\"", "g", "r", "a", "d", "e", "\"", ":",
    " ", "\"", "A", "\"", "}", "}">>

Txt_NoSummary ==
  <<"{", "\"", "s", "k", "i", "l", "l", "_", "a", "n", "a", "l", "y", "s",
    "i", "s", "\"", ":", " ", "{", "}", "}">>

\* thresholds of the grade ladder
SCORE_A == 85
SCORE_B_PLUS == 75
SCORE_B == 65
SCORE_C == 55
\* score of a text that int() rejects
SCORE_FALLBACK == 70

\* recommendation and grade of a numeric score
GradeOf(score) ==
  IF score >= SCORE_A
  THEN [recommendation |-> Txt_StronglyRecommend, grade |-> Txt_GradeA]
  ELSE IF score >= SCORE_B_PLUS
  THEN [recommendation |-> Txt_Recommend, grade |-> Txt_GradeBPlus]
  ELSE IF score >= SCORE_B
  THEN [recommendation |-> Txt_Consider, grade |-> Txt_GradeB]
  ELSE IF score >= SCORE_C
  THEN [recommendation |-> Txt_ConsiderWithReservations, grade |-> Txt_GradeC]
  ELSE [recommendation |-> Txt_NotRecommended, grade |-> Txt_GradeD]

NotPercent(c) == c # "%"

\* int(score.replace('%', '')): int() strips whitespace around the digits
ScoreOfText(txt) ==
  LET parsed == ParseInt(Strip(SelectSeq(txt, NotPercent)))
  IN IF parsed.ok THEN parsed.val ELSE SCORE_FALLBACK

\* result["match_summary"].get("overall_score", 0)
RawScore(summary) ==
  IF Txt_overall_score \in DOMAIN summary.kv
  THEN summary.kv[Txt_overall_score]
  ELSE JNum(0)

\* the exception the normalization raises, "none" when it completes:
\* .get on a match_summary that is no dict, >= on a score that is no number
NormalizeException(res) ==
  IF Txt_match_summary \notin DOMAIN res THEN "none"
  ELSE IF res[Txt_match_summary].t # "obj" THEN "AttributeError"
  ELSE IF RawScore(res[Txt_match_summary]).t \in {"null", "arr", "obj"}
  THEN "TypeError"
  ELSE "none"

\* the score that is compared: a bool is an int in Python
ComparedScore(value) ==
  IF value.t = "str" THEN ScoreOfText(value.s)
  ELSE IF value.t = "true" THEN 1
  ELSE IF value.t = "false" THEN 0
  ELSE value.n

\* lines 465-488: the result with recommendation and grade overwritten
NormalizeGrades(res) ==
  IF Txt_match_summary \notin DOMAIN res THEN res
  ELSE LET summary == res[Txt_match_summary]
           g == GradeOf(ComparedScore(RawScore(summary)))
           fields == (Txt_recommendation :> JStr(g.recommendation))
                       @@ (Txt_grade :> JStr(g.grade))
                       @@ summary.kv
       IN (Txt_match_summary :> JObj(fields)) @@ res

\* overall_score literals the model can write
ScoreLiterals ==
  { <<"8", "5">>,
    <<"8", "4">>,
    <<"7", "5">>,
    <<"7", "4">>,
    <<"6", "5">>,
    <<"6", "4">>,
    <<"5", "5">>,
    <<"5", "4">>,
    <<"0">>,
    <<"1", "0", "0">>,
    <<"-", "5">>,
    <<"\"", "8", "5", "\"">>,
    <<"\"", "8", "5", "%", "\"">>,
    <<"\"", "5", "4", "%", "\"">>,
    <<"\"", "a", "b", "c", "\"">>,
    <<"\"", "\"">>,
    <<"n", "u", "l", "l">> }

WrittenGrades == {Txt_GradeA, Txt_GradeD}

\* contents of a 2xx body for the match prompt
ScoreContents ==
  { Txt_ScoreOpen \o lit \o Txt_GradeOpen \o g \o Txt_ScoreClose :
      lit \in ScoreLiterals, g \in WrittenGrades }
  \cup {Txt_NoScore, Txt_NoSummary, Txt_NotJson}

\* =================================================================
\* generate_hiring_report_detailed: values taken from the match result
\* =================================================================
Txt_executive_summary ==
  <<"e", "x", "e", "c", "u", "t", "i", "v", "e", "_", "s", "u", "m", "m",
    "a", "r", "y">>

Txt_ats_score ==
  <<"a", "t", "s", "_", "s", "c", "o", "r", "e">>

Txt_final_recommendation ==
  <<"f", "i", "n", "a", "l", "_", "r", "e", "c", "o", "m", "m", "e", "n",
    "d", "a", "t", "i", "o", "n">>

Txt_decision ==
  <<"d", "e", "c", "i", "s", "i", "o", "n">>

Txt_ScorePercent ==
  <<"8", "5", "%">>

Txt_ReportFull ==
  <<"{", "\"", "e", "x", "e", "c", "u", "t", "i", "v", "e", "_", "s", "u",
    "m", "m", "a", "r", "y", "\"", ":", " ", "{", "\"", "r", "e", "c", "o",
    "m", "m", "e", "n", "d", "a", "t", "i", "o", "n", "\"", ":", " ", "\"",
    "H", "I", "R", "E", "\"", ",", " ", "\"", "a", "t", "s", "_", "s", "c",
    "o", "r", "e", "\"", ":", " ", "9", "9", ",", " ", "\"", "g", "r", "a",
    "d", "e", "\"", ":", " ", "\"", "A", "+", "\"", "}", ",", " ", "\"",
    "f", "i", "n", "a", "l", "_", "r", "e", "c", "o", "m", "m", "e", "n",
    "d", "a", "t", "i", "o", "n", "\"", ":", " ", "{", "\"", "d", "e", "c",
    "i", "s", "i", "o", "n", "\"", ":", " ", "\"", "H", "I", "R", "E",
    "\"", "}", "}">>

Txt_ReportSummaryOnly ==
  <<"{", "\"", "e", "x", "e", "c", "u", "t", "i", "v", "e", "_", "s", "u",
    "m", "m", "a", "r", "y", "\"", ":", " ", "{", "\"", "a", "t", "s", "_",
    "s", "c", "o", "r", "e", "\"", ":", " ", "9", "9", "}", "}">>

Txt_ReportFinalOnly ==
  <<"{", "\"", "f", "i", "n", "a", "l", "_", "r", "e", "c", "o", "m", "m",
    "e", "n", "d", "a", "t", "i", "o", "n", "\"", ":", " ", "{", "\"", "d",
    "e", "c", "i", "s", "i", "o", "n", "\"", ":", " ", "\"", "H", "I", "R",
    "E", "\"", "}", "}">>

Txt_ReportSummaryText ==
  <<"{", "\"", "e", "x", "e", "c", "u", "t", "i", "v", "e", "_", "s", "u",
    "m", "m", "a", "r", "y", "\"", ":", " ", "\"", "S", "t", "r", "o", "n",
    "g", " ", "c", "a", "n", "d", "i", "d", "a", "t", "e", "\"", "}">>

\* ats_score when the match result gives none
ATS_DEFAULT == 70

\* dict.get(key, fallback)
Get(f, key, fallback) == IF key \in DOMAIN f THEN f[key] ELSE fallback

\* ats_score, grade and recommendation computed before the prompt is built;
\* an empty dict is falsy
PreCalculated(match) ==
  IF DOMAIN match # {} /\ Txt_match_summary \in DOMAIN match
  THEN LET summary == match[Txt_match_summary].kv
       IN [ats_score |-> Get(summary, Txt_overall_score, JNum(ATS_DEFAULT)),
           grade |-> Get(summary, Txt_grade, JStr(Txt_GradeB)),
           recommendation |->
             Get(summary, Txt_recommendation, JStr(Txt_Consider))]
  ELSE [ats_score |-> JNum(ATS_DEFAULT),
        grade |-> JStr(Txt_GradeB),
        recommendation |-> JStr(Txt_Consider)]

\* item assignment on a value that is no dict raises TypeError
OverwriteException(res) ==
  IF \/ Txt_executive_summary \in DOMAIN res
        /\ res[Txt_executive_summary].t # "obj"
     \/ Txt_final_recommendation \in DOMAIN res
        /\ res[Txt_final_recommendation].t # "obj"
  THEN "TypeError"
  ELSE "none"

\* result["executive_summary"][...] = ... of the consistency block
OverwriteSummary(res, pre) ==
  IF Txt_executive_summary \notin DOMAIN res THEN res
  ELSE (Txt_executive_summary :>
          JObj((Txt_recommendation :> pre.recommendation)
                 @@ (Txt_ats_score :> pre.ats_score)
                 @@ (Txt_grade :> pre.grade)
                 @@ res[Txt_executive_summary].kv))
         @@ res

\* result["final_recommendation"]["decision"] = recommendation
OverwriteDecision(res, pre) ==
  IF Txt_final_recommendation \notin DOMAIN res THEN res
  ELSE (Txt_final_recommendation :>
          JObj((Txt_decision :> pre.recommendation)
                 @@ res[Txt_final_recommendation].kv))
         @@ res

Overwrite(res, pre) == OverwriteDecision(OverwriteSummary(res, pre), pre)

\* a match result as calculate_match_score_detailed returns it
MatchOf(fields) == NormalizeGrades(Txt_match_summary :> JObj(fields))

\* what the caller passes as match_result: the empty dict, an error dict,
\* and match results with an integer score, a text score and no score
MatchResults ==
  { <<>>,
    Txt_error :> JStr(Msg_Timeout),
    MatchOf(Txt_overall_score :> JNum(SCORE_A)),
    MatchOf(Txt_overall_score :> JNum(0)),
    MatchOf(Txt_overall_score :> JStr(Txt_ScorePercent)),
    MatchOf(<<>>) }

\* contents of a 2xx body for the report prompt
ReportContents ==
  { Txt_ReportFull, Txt_ReportSummaryOnly, Txt_ReportFinalOnly,
    Txt_ReportSummaryText, Txt_NoSummary, Txt_NotJson }

\* ------------------------------------------------------------- state
VARIABLES
  now,                \* time.time()
  LAST_REQUEST_TIME,  \* module global of llm_utils
  pc,                 \* position of each caller in call_llm
  api_key,            \* local api_key of call_llm
  attempt,            \* loop variable of the retry loop (0-based)
  wake,               \* end of the time.sleep a caller is in
  sentAt,             \* time of the caller's request in flight
  outcome,            \* what call_llm returned (or the exception it raised)
  nsend,              \* requests.post calls of the current invocation
  log,                \* responses received by the current invocation
  waits,              \* backoff sleeps of the current invocation
  gateWait,           \* rate-gate sleep of the current invocation
  lastAtEntry,        \* LAST_REQUEST_TIME when the invocation started
  gap,                \* seconds between the last two send timestamps
  gapKind,            \* "none", "retry", "call" or "cross"
  prevSender,         \* who wrote LAST_REQUEST_TIME last: a caller, "earlier"
                      \* (an invocation that returned before) or "nobody"
  response,           \* argument of safe_json_parse
  default,            \* argument of safe_json_parse
  cleaned,            \* local of safe_json_parse
  result,             \* value returned by safe_json_parse
  jpc,                \* "ready" before safe_json_parse runs, "parsed" after
  installed,          \* the document libraries that can be imported
  method,             \* local of handle_file_upload: the st.radio choice
  uploaded,           \* local of handle_file_upload: the file, or NoFile
  default_text,       \* argument of handle_file_upload
  pasted,             \* content of the st.text_area widget
  text,               \* local of handle_file_upload
  returned,           \* value returned by handle_file_upload
  shown,              \* "success", "error", "info" or "none"
  upc,                \* "ready" before handle_file_upload runs
  match_result,       \* argument of generate_hiring_report_detailed
  model_loaded,       \* st.session_state.model_loaded
  cached,             \* st.cache_resource holds the value of load_model()
  verifyAt,           \* time of the POST of initialize_llm, -1 before it
  global_jd_text,     \* st.session_state.global_jd_text
  global_resume_text, \* st.session_state.global_resume_text
  tab1_result,        \* st.session_state.tab1_result
  tab2_result,        \* st.session_state.tab2_result
  tab3_result,        \* st.session_state.tab3_result
  tab5_result,        \* st.session_state.tab5_result
  tab6_result,        \* st.session_state.tab6_result
  issued,             \* analysis calls made by the last script run
  clicked,            \* the button the last script run handled
  rerun,              \* st.rerun() was called: the script runs again
  runs                \* script runs of the session so far

vars == <<now, LAST_REQUEST_TIME, pc, api_key, attempt, wake, sentAt, outcome, nsend,
          log, waits, gateWait, lastAtEntry, gap, gapKind, prevSender,
          response, default, cleaned, result, jpc, installed, method,
          uploaded, default_text, pasted, text, returned, shown, upc,
          match_result, model_loaded, cached, verifyAt, global_jd_text,
          global_resume_text, tab1_result, tab2_result, tab3_result,
          tab5_result, tab6_result, issued, clicked, rerun, runs>>

locals == <<api_key, attempt, wake, sentAt, nsend, log, waits, gateWait>>
history == <<gap, gapKind, prevSender>>
callvars == <<now, LAST_REQUEST_TIME, pc, locals, outcome, lastAtEntry, history>>
jvars == <<response, default, cleaned, result, jpc>>
uvars == <<installed, method, uploaded, default_text, pasted, text, returned,
           shown, upc>>

\* no text is being parsed
JsonIdle ==
  /\ response = PyNone
  /\ default = NoDefault
  /\ cleaned = <<>>
  /\ result = <<>>
  /\ jpc = "idle"

rvars == <<match_result>>
tabvars == <<tab1_result, tab2_result, tab3_result, tab5_result, tab6_result>>
svars == <<model_loaded, cached, verifyAt, global_jd_text, global_resume_text,
           tabvars, issued, clicked, rerun, runs>>

\* no report is being generated
ReportIdle == match_result = <<>>

\* a cached result slot holding None
NoResult == [none |-> TRUE, d |-> <<>>]

\* lines 50-53: the session state of a new session; load_model is cached
\* when an earlier session of the process has called call_llm
SessionStart ==
  /\ model_loaded = FALSE
  /\ cached = (LAST_REQUEST_TIME # 0)
  /\ verifyAt = -1
  /\ global_jd_text = <<>>
  /\ global_resume_text = <<>>
  /\ tab1_result = NoResult
  /\ tab2_result = NoResult
  /\ tab3_result = NoResult
  /\ tab5_result = NoResult
  /\ tab6_result = NoResult
  /\ issued = <<>>
  /\ clicked = "none"
  /\ rerun = FALSE
  /\ runs = 0

\* no upload widget is being rendered
UploadIdle ==
  /\ installed = Libraries
  /\ method = "Paste Text"
  /\ uploaded = NoFile
  /\ default_text = <<>>
  /\ pasted = <<>>
  /\ text = <<>>
  /\ returned = <<>>
  /\ shown = "none"
  /\ upc = "idle"

\* call_llm is entered in a fresh process (LAST_REQUEST_TIME = 0) or up to
\* MaxIdle seconds after the send of an earlier invocation
Init ==
  /\ JsonIdle
  /\ UploadIdle
  /\ ReportIdle
  /\ now = StartTime
  /\ LAST_REQUEST_TIME \in {0} \cup {StartTime - k : k \in 0..MaxIdle}
  /\ prevSender = IF LAST_REQUEST_TIME = 0 THEN "nobody" ELSE "earlier"
  /\ pc = [t \in Callers |-> "idle"]
  /\ api_key = [t \in Callers |-> ""]
  /\ attempt = [t \in Callers |-> 0]
  /\ wake = [t \in Callers |-> 0]
  /\ sentAt = [t \in Callers |-> 0]
  /\ outcome = [t \in Callers |-> "none"]
  /\ nsend = [t \in Callers |-> 0]
  /\ log = [t \in Callers |-> <<>>]
  /\ waits = [t \in Callers |-> <<>>]
  /\ gateWait = [t \in Callers |-> 0]
  /\ lastAtEntry = [t \in Callers |-> 0]
  /\ gap = 0
  /\ gapKind = "none"
  /\ SessionStart

\* ------------------------------------------------------------ call_llm
\* variant: no early return when the key is empty
CallLLM_NoKeyCheck(t, key) ==
  /\ pc[t] = "idle"
  /\ api_key' = [api_key EXCEPT ![t] = key]
  /\ attempt' = [attempt EXCEPT ![t] = 0]
  /\ nsend' = [nsend EXCEPT ![t] = 0]
  /\ log' = [log EXCEPT ![t] = <<>>]
  /\ waits' = [waits EXCEPT ![t] = <<>>]
  /\ gateWait' = [gateWait EXCEPT ![t] = 0]
  /\ lastAtEntry' = [lastAtEntry EXCEPT ![t] = LAST_REQUEST_TIME]
  /\ pc' = [pc EXCEPT ![t] = "gate"]
  /\ outcome' = [outcome EXCEPT ![t] = "none"]
  /\ UNCHANGED <<now, LAST_REQUEST_TIME, wake, sentAt, history, jvars, uvars, rvars, svars>>

\* entry: get_api_key(), and the early return when it is empty
CallLLM(t, key) ==
  /\ pc[t] = "idle"
  /\ api_key' = [api_key EXCEPT ![t] = key]
  /\ attempt' = [attempt EXCEPT ![t] = 0]
  /\ nsend' = [nsend EXCEPT ![t] = 0]
  /\ log' = [log EXCEPT ![t] = <<>>]
  /\ waits' = [waits EXCEPT ![t] = <<>>]
  /\ gateWait' = [gateWait EXCEPT ![t] = 0]
  /\ lastAtEntry' = [lastAtEntry EXCEPT ![t] = LAST_REQUEST_TIME]
  /\ IF key # ""
     THEN /\ pc' = [pc EXCEPT ![t] = "gate"]
          /\ outcome' = [outcome EXCEPT ![t] = "none"]
     ELSE /\ pc' = [pc EXCEPT ![t] = "done"]
          /\ outcome' = [outcome EXCEPT ![t] = "NoKey"]
  /\ UNCHANGED <<now, LAST_REQUEST_TIME, wake, sentAt, history, jvars, uvars, rvars, svars>>

\* rate gate: read the clock and LAST_REQUEST_TIME, start the sleep if due
Gate(t) ==
  /\ pc[t] = "gate"
  /\ LET w == GateWaitTime(now, LAST_REQUEST_TIME) IN
       /\ gateWait' = [gateWait EXCEPT ![t] = w]
       /\ IF w > 0
          THEN /\ pc' = [pc EXCEPT ![t] = "gate_sleep"]
               /\ wake' = [wake EXCEPT ![t] = now + w]
          ELSE /\ pc' = [pc EXCEPT ![t] = "send"]
               /\ UNCHANGED wake
  /\ UNCHANGED <<now, LAST_REQUEST_TIME, api_key, attempt, sentAt, outcome,
                 nsend, log, waits, lastAtEntry, history, jvars, uvars, rvars, svars>>

\* variant: the rate gate writes the timestamp when its sleep ends
GateWake_Stamps(t) ==
  /\ pc[t] = "gate_sleep"
  /\ now' = Max(now, wake[t])
  /\ LAST_REQUEST_TIME' = now'
  /\ pc' = [pc EXCEPT ![t] = "send"]
  /\ UNCHANGED <<locals, outcome, lastAtEntry, history, jvars, uvars, rvars, svars>>

\* time.sleep(wait_time) of the rate gate returns
GateWake(t) ==
  /\ pc[t] = "gate_sleep"
  /\ now' = Max(now, wake[t])
  /\ pc' = [pc EXCEPT ![t] = "send"]
  /\ UNCHANGED <<LAST_REQUEST_TIME, locals, outcome, lastAtEntry, history,
                 jvars, uvars, rvars, svars>>

\* top of the loop body: LAST_REQUEST_TIME = time.time(); requests.post(...)
Send(t) ==
  /\ pc[t] = "send"
  /\ LAST_REQUEST_TIME' = now
  /\ sentAt' = [sentAt EXCEPT ![t] = now]
  /\ nsend' = [nsend EXCEPT ![t] = @ + 1]
  /\ gap' = IF prevSender = "nobody" THEN 0 ELSE now - LAST_REQUEST_TIME
  /\ gapKind' = IF prevSender = "nobody" THEN "none"
                ELSE IF prevSender = "earlier" THEN "call"
                ELSE IF prevSender = t THEN "retry"
                ELSE "cross"
  /\ prevSender' = t
  /\ pc' = [pc EXCEPT ![t] = "posted"]
  /\ UNCHANGED <<now, api_key, attempt, wake, outcome, log, waits, gateWait,
                 lastAtEntry, jvars, uvars, rvars, svars>>

\* call_llm returns a value
Return(t, res) ==
  /\ pc' = [pc EXCEPT ![t] = "done"]
  /\ outcome' = [outcome EXCEPT ![t] = res]
  /\ UNCHANGED <<attempt, wake, waits>>

\* time.sleep(w) inside the loop, followed by continue; a negative w makes
\* time.sleep raise ValueError, which no handler of call_llm catches
Backoff(t, w, at) ==
  /\ waits' = [waits EXCEPT ![t] = Append(@, w)]
  /\ UNCHANGED attempt
  /\ IF w < 0
     THEN /\ pc' = [pc EXCEPT ![t] = "raised"]
          /\ outcome' = [outcome EXCEPT ![t] = "ValueError"]
          /\ UNCHANGED wake
     ELSE /\ pc' = [pc EXCEPT ![t] = "backoff"]
          /\ wake' = [wake EXCEPT ![t] = at + w]
          /\ UNCHANGED outcome

\* common part of every response: the clock and the log
Arrive(t, r, d) ==
  /\ pc[t] = "posted"
  /\ now' = Max(now, sentAt[t] + d)
  /\ log' = [log EXCEPT ![t] = Append(@, r)]
  /\ UNCHANGED <<LAST_REQUEST_TIME, api_key, sentAt, nsend, gateWait,
                 lastAtEntry, history, jvars, uvars, rvars, svars>>

\* variant: a 401 is retried like a 429
Respond401_Retried(t, r, d) ==
  /\ r.kind = "401"
  /\ Arrive(t, r, d)
  /\ Backoff(t, ScheduleDelay(attempt[t]), Max(now, sentAt[t] + d))

\* response.status_code == 401
Respond401(t, r, d) ==
  /\ r.kind = "401"
  /\ Arrive(t, r, d)
  /\ Return(t, "Auth")

\* response.status_code == 429
Respond429(t, r, d) ==
  /\ r.kind = "429"
  /\ Arrive(t, r, d)
  /\ Backoff(t, RateLimitWait(attempt[t], r.hdr), Max(now, sentAt[t] + d))

\* an exception no handler of call_llm catches leaves call_llm
Raises(t, e) ==
  /\ pc' = [pc EXCEPT ![t] = "raised"]
  /\ outcome' = [outcome EXCEPT ![t] = e]
  /\ UNCHANGED <<attempt, wake, waits>>

\* 2xx: raise_for_status passes; result['choices'][0]['message']['content']
\* then .strip(), which None does not have
Respond2xx(t, r, d) ==
  /\ r.kind = "200"
  /\ Arrive(t, r, d)
  /\ IF r.body = "null_content"
     THEN Raises(t, "AttributeError")
     ELSE Return(t, IF r.body = "ok" THEN "Success" ELSE "Malformed")

\* variant: the last attempt is retried too
RespondTimeout_OffByOne(t, r, d) ==
  /\ r.kind = "timeout"
  /\ Arrive(t, r, d)
  /\ IF attempt[t] < max_retries
     THEN Backoff(t, TIMEOUT_DELAY, Max(now, sentAt[t] + d))
     ELSE Return(t, "Timeout")

\* except requests.exceptions.Timeout
RespondTimeout(t, r, d) ==
  /\ r.kind = "timeout"
  /\ Arrive(t, r, d)
  /\ IF attempt[t] < max_retries - 1
     THEN Backoff(t, TIMEOUT_DELAY, Max(now, sentAt[t] + d))
     ELSE Return(t, "Timeout")

\* except requests.exceptions.RequestException (raise_for_status included)
RespondException(t, r, d) ==
  /\ r.kind \in {"exc", "500"}
  /\ Arrive(t, r, d)
  /\ IF r.has429
     THEN IF attempt[t] < max_retries - 1
          THEN Backoff(t, retry_delays[attempt[t] + 1], Max(now, sentAt[t] + d))
          ELSE Return(t, "RateLimit")
     ELSE Return(t, "Transport")

\* the backoff sleep returns; continue: next iteration, or the loop is
\* exhausted and the final return statement runs
BackoffWake(t) ==
  /\ pc[t] = "backoff"
  /\ now' = Max(now, wake[t])
  /\ attempt' = [attempt EXCEPT ![t] = @ + 1]
  /\ IF attempt[t] + 1 < max_retries
     THEN /\ pc' = [pc EXCEPT ![t] = "send"]
          /\ UNCHANGED outcome
     ELSE /\ pc' = [pc EXCEPT ![t] = "done"]
          /\ outcome' = [outcome EXCEPT ![t] = "RateLimitAfterRetries"]
  /\ UNCHANGED <<LAST_REQUEST_TIME, api_key, wake, sentAt, nsend, log, waits,
                 gateWait, lastAtEntry, history, jvars, uvars, rvars, svars>>

Step(t, rs, ds) ==
  \/ \E k \in ApiKeys : CallLLM(t, k)
  \/ Gate(t)
  \/ GateWake(t)
  \/ Send(t)
  \/ \E r \in rs : \E d \in LatenciesOf(r, ds) : Respond401(t, r, d)
  \/ \E r \in rs : \E d \in LatenciesOf(r, ds) : Respond429(t, r, d)
  \/ \E r \in rs : \E d \in LatenciesOf(r, ds) : Respond2xx(t, r, d)
  \/ \E r \in rs : \E d \in LatenciesOf(r, ds) : RespondTimeout(t, r, d)
  \/ \E r \in rs : \E d \in LatenciesOf(r, ds) : RespondException(t, r, d)
  \/ BackoffWake(t)

\* single-threaded run: one caller
Next == Step("c1", Responses, Latencies)

Spec == Init /\ [][Next]_vars

\* two callers inside call_llm at once (two sessions of the host share the
\* module global); the endpoint behaviours are limited to one of each kind,
\* answered at once, and only the requests of c1 meet retryable failures
ConcResponses ==
  { Resp("401", NoHeader, "none", FALSE),
    Resp("429", NoHeader, "none", FALSE),
    Resp("200", NoHeader, "ok", FALSE),
    Resp("timeout", NoHeader, "none", FALSE),
    Resp("exc", NoHeader, "none", FALSE) }

FinalResponses == { r \in ConcResponses : r.kind \notin {"429", "timeout"} }

NextConc ==
  \E t \in Callers :
    Step(t, IF t = "c1" THEN ConcResponses ELSE FinalResponses, {0})

SpecConc == Init /\ [][NextConc]_vars

\* ------------------------------------------------- safe_json_parse
InitJson ==
  /\ UploadIdle
  /\ ReportIdle
  /\ now = StartTime
  /\ LAST_REQUEST_TIME = 0
  /\ prevSender = "nobody"
  /\ pc = [t \in Callers |-> "idle"]
  /\ api_key = [t \in Callers |-> ""]
  /\ attempt = [t \in Callers |-> 0]
  /\ wake = [t \in Callers |-> 0]
  /\ sentAt = [t \in Callers |-> 0]
  /\ outcome = [t \in Callers |-> "none"]
  /\ nsend = [t \in Callers |-> 0]
  /\ log = [t \in Callers |-> <<>>]
  /\ waits = [t \in Callers |-> <<>>]
  /\ gateWait = [t \in Callers |-> 0]
  /\ lastAtEntry = [t \in Callers |-> 0]
  /\ gap = 0
  /\ gapKind = "none"
  /\ SessionStart
  /\ response \in {PyNone} \cup {PyStr(txt) : txt \in InputTexts}
  /\ default \in Defaults
  /\ cleaned = <<>>
  /\ result = <<>>
  /\ jpc = "ready"

\* one run of safe_json_parse(response, default)
SafeJsonParse ==
  /\ jpc = "ready"
  /\ cleaned' = clean_json_response(response)
  /\ IF EscapingException(response) = "none"
     THEN /\ result' = safe_json_parse(response, default)
          /\ jpc' = "parsed"
     ELSE /\ result' = <<>>
          /\ jpc' = "raised"
  /\ UNCHANGED <<response, default, callvars, uvars, rvars, svars>>

NextJson == SafeJsonParse

SpecJson == InitJson /\ [][NextJson]_vars

\* ------------------------------------------------ analysis functions
\* parse_resume_detailed and the other analysis functions end with
\* response = call_llm(prompt, ...); return safe_json_parse(response)
AnalysisResponses ==
  { r \in Responses : r.kind = "429" => r.hdr = NoHeader }

NoResponse == Resp("none", NoHeader, "none", FALSE)
LastResponse(t) ==
  IF log[t] = <<>> THEN NoResponse ELSE log[t][Len(log[t])]

\* call_llm has returned: its value is bound to response and parsed
parse_resume_detailed(t) ==
  /\ pc[t] = "done"
  /\ jpc = "idle"
  /\ \E value \in ReturnValues(outcome[t], LastResponse(t)) :
       /\ response' = PyStr(value)
       /\ default' = NoDefault
       /\ cleaned' = clean_json_response(PyStr(value))
       /\ IF EscapingException(PyStr(value)) = "none"
          THEN /\ result' = safe_json_parse(PyStr(value), NoDefault)
               /\ jpc' = "parsed"
          ELSE /\ result' = <<>>
               /\ jpc' = "raised"
  /\ UNCHANGED <<callvars, uvars, rvars, svars>>

NextAnalysis ==
  \/ Step("c1", AnalysisResponses, {0})
  \/ parse_resume_detailed("c1")

SpecAnalysis == Init /\ [][NextAnalysis]_vars

\* call_llm has returned to calculate_match_score_detailed: the value is
\* parsed and the grades are normalized
calculate_match_score_detailed(t) ==
  /\ pc[t] = "done"
  /\ jpc = "idle"
  /\ \E value \in (IF outcome[t] = "Success"
                    THEN {Strip(c) : c \in ScoreContents}
                    ELSE ReturnValues(outcome[t], LastResponse(t))) :
     \E parsed \in {safe_json_parse(PyStr(value), NoDefault)} :
       /\ response' = PyStr(value)
       /\ default' = NoDefault
       /\ cleaned' = clean_json_response(PyStr(value))
       /\ IF EscapingException(PyStr(value)) # "none"
          THEN /\ result' = <<>>
               /\ jpc' = "raised"
          ELSE IF NormalizeException(parsed) # "none"
          THEN /\ result' = parsed
               /\ jpc' = "raised"
          ELSE /\ result' = NormalizeGrades(parsed)
               /\ jpc' = "parsed"
  /\ UNCHANGED <<callvars, uvars, rvars, svars>>

\* generate_hiring_report_detailed is entered with a match result, right
\* after the send of the salary step has stamped LAST_REQUEST_TIME
InitReport ==
  /\ JsonIdle
  /\ UploadIdle
  /\ match_result \in MatchResults
  /\ now = StartTime
  /\ LAST_REQUEST_TIME = StartTime
  /\ prevSender = "earlier"
  /\ pc = [t \in Callers |-> "idle"]
  /\ api_key = [t \in Callers |-> ""]
  /\ attempt = [t \in Callers |-> 0]
  /\ wake = [t \in Callers |-> 0]
  /\ sentAt = [t \in Callers |-> 0]
  /\ outcome = [t \in Callers |-> "none"]
  /\ nsend = [t \in Callers |-> 0]
  /\ log = [t \in Callers |-> <<>>]
  /\ waits = [t \in Callers |-> <<>>]
  /\ gateWait = [t \in Callers |-> 0]
  /\ lastAtEntry = [t \in Callers |-> 0]
  /\ gap = 0
  /\ gapKind = "none"
  /\ SessionStart

\* call_llm has returned to generate_hiring_report_detailed: the value is
\* parsed and the pre-calculated values are written over the model's
generate_hiring_report_detailed(t) ==
  /\ pc[t] = "done"
  /\ jpc = "idle"
  /\ \E value \in (IF outcome[t] = "Success"
                    THEN {Strip(c) : c \in ReportContents}
                    ELSE ReturnValues(outcome[t], LastResponse(t))) :
     \E parsed \in {safe_json_parse(PyStr(value), NoDefault)} :
       /\ response' = PyStr(value)
       /\ default' = NoDefault
       /\ cleaned' = clean_json_response(PyStr(value))
       /\ IF EscapingException(PyStr(value)) # "none"
          THEN /\ result' = <<>>
               /\ jpc' = "raised"
          ELSE IF OverwriteException(parsed) # "none"
          THEN /\ result' = parsed
               /\ jpc' = "raised"
          ELSE /\ result' = Overwrite(parsed, PreCalculated(match_result))
               /\ jpc' = "parsed"
  /\ UNCHANGED <<callvars, uvars, rvars, svars>>

NextReport ==
  \/ Step("c1", ConcResponses, {0})
  \/ generate_hiring_report_detailed("c1")

SpecReport == InitReport /\ [][NextReport]_vars

\* =================================================================
\* initialize_llm behind the Load AI Model button, then one analysis call
\* =================================================================

\* timeout=15 of the verification POST
VERIFY_TIMEOUT == 15

\* seconds the user lets pass before the next click
MaxThink == 4

\* script runs of one session
MaxRuns == 3

\* what handle_file_upload gives a tab: nothing, or a text
TextInputs == {<<>>, Txt_Pasted}

\* what get_api_key() gives initialize_llm
LoadKeys == {"", "sk_key", "gsk_key"}

\* the key is empty, or does not start with "gsk_"
KeyRejected(key) == key \in {"", "sk_key"}

\* what the verification POST meets: a status code, a timeout, or another
\* RequestException whose message holds "401"
VerifyOutcomes == {"200", "401", "429", "500", "timeout", "exc401"}

\* initialize_llm raises ValueError for these, and returns True otherwise
VerifyRaises(v) == v \in {"401", "exc401"}

\* a script run in which the sidebar button is clicked: load_model() is initialize_llm() behind
\* st.cache_resource, so a value cached by the process is returned without
\* a request; otherwise the key is checked and the verification POST is
\* made at the current time; model_loaded is set when load_model returns.
\* Neither function reads or writes LAST_REQUEST_TIME.  The tabs rendered
\* after the sidebar store the texts of their inputs.
LoadModel(key, v, d, jd, res) ==
  /\ pc["c1"] = "idle"
  /\ ~rerun
  /\ runs < MaxRuns
  /\ runs' = runs + 1
  /\ clicked' = "load"
  /\ issued' = <<>>
  /\ global_jd_text' = jd
  /\ global_resume_text' = res
  /\ IF cached
     THEN /\ model_loaded' = TRUE
          /\ UNCHANGED <<cached, verifyAt, now>>
     ELSE IF KeyRejected(key)
     THEN UNCHANGED <<model_loaded, cached, verifyAt, now>>
     ELSE /\ verifyAt' = now
          /\ now' = now + d
          /\ cached' = ~VerifyRaises(v)
          /\ model_loaded' = ~VerifyRaises(v)
  /\ UNCHANGED <<LAST_REQUEST_TIME, pc, locals, outcome, lastAtEntry, history,
                 jvars, uvars, rvars, tabvars, rerun>>

\* a second passes between two clicks
UserWaits ==
  /\ pc["c1"] = "idle"
  /\ now < StartTime + MaxThink
  /\ now' = now + 1
  /\ UNCHANGED <<LAST_REQUEST_TIME, pc, locals, outcome, lastAtEntry, history,
                 jvars, uvars, rvars, svars>>

\* an analysis button calls call_llm only when model_loaded is set
NextLoad ==
  \/ \E key \in LoadKeys : \E v \in VerifyOutcomes :
       \E d \in (IF v = "timeout" THEN {VERIFY_TIMEOUT} ELSE {0}) :
         \E jd, res \in TextInputs : LoadModel(key, v, d, jd, res)
  \/ UserWaits
  \/ model_loaded /\ Step("c1", ConcResponses, {0})

SpecLoad == Init /\ [][NextLoad]_vars

\* =================================================================
\* the session: one action per script run, by the button clicked
\* =================================================================

\* a cached result slot holding a dict
Some(v) == [none |-> FALSE, d |-> v]

\* st.session_state.get(k) is truthy: neither None nor an empty dict
Truthy(slot) == ~slot.none /\ DOMAIN slot.d # {}

\* line 134: results > 0
AnyResult ==
  \E slot \in {tab1_result, tab2_result, tab3_result, tab5_result,
                tab6_result} : Truthy(slot)

\* dicts the analysis functions return
ErrorResult == Txt_error :> JStr(Msg_Timeout)
MatchValues == {ErrorResult, MatchOf(Txt_overall_score :> JNum(SCORE_A))}
SalaryValues == {<<>>, ErrorResult}
ParseValues == {ErrorResult}
ReportValues == {ErrorResult}

\* an analysis function returns a dict or raises
Outcomes(values) ==
  {[raised |-> TRUE, v |-> <<>>]}
    \cup {[raised |-> FALSE, v |-> x] : x \in values}

\* one analysis call of a run: the function, what it returned (None when it
\* raised), and the match and salary results passed to it
Call(fn, o, m, sal) ==
  [fn |-> fn, ret |-> IF o.raised THEN NoResult ELSE Some(o.v),
   match |-> m, salary |-> sal]

\* the slot after slot = f(...): unchanged when f raised
Assigned(slot, call) == IF call.ret.none THEN slot ELSE call.ret

\* the clock after n calls of call_llm made in a row, each sending once and
\* answered at once: the first waits at the gate as LAST_REQUEST_TIME
\* demands, each later one the full interval
AfterCalls(n) ==
  IF n = 0 THEN now
  ELSE now + GateWaitTime(now, LAST_REQUEST_TIME)
         + (n - 1) * MIN_REQUEST_INTERVAL

\* a script run that gets past the sidebar: the tabs store the texts of
\* their inputs, and the handler of the clicked button makes the calls and
\* assigns the slots t1 .. t6
ScriptRun(button, jd, res, calls, t1, t2, t3, t5, t6) ==
  /\ pc["c1"] = "idle"
  /\ ~rerun
  /\ runs < MaxRuns
  /\ runs' = runs + 1
  /\ clicked' = button
  /\ issued' = calls
  /\ global_jd_text' = jd
  /\ global_resume_text' = res
  /\ tab1_result' = t1
  /\ tab2_result' = t2
  /\ tab3_result' = t3
  /\ tab5_result' = t5
  /\ tab6_result' = t6
  /\ now' = AfterCalls(Len(calls))
  /\ LAST_REQUEST_TIME' =
       IF calls = <<>> THEN LAST_REQUEST_TIME ELSE AfterCalls(Len(calls))
  /\ UNCHANGED <<model_loaded, cached, verifyAt, rerun, pc, locals, outcome,
                 lastAtEntry, history, jvars, uvars, rvars>>

\* no button is clicked: the user has changed an input, or the run is the
\* one st.rerun() asked for, with the inputs as they were
Render(jd, res) ==
  /\ pc["c1"] = "idle"
  /\ runs < MaxRuns
  /\ rerun => (jd = global_jd_text /\ res = global_resume_text)
  /\ runs' = runs + 1
  /\ rerun' = FALSE
  /\ clicked' = "none"
  /\ issued' = <<>>
  /\ global_jd_text' = jd
  /\ global_resume_text' = res
  /\ UNCHANGED <<model_loaded, cached, verifyAt, tabvars, callvars, jvars,
                 uvars, rvars>>

\* variant: Clear All Results also forgets that the model is loaded
btn_clear_Unloads ==
  /\ pc["c1"] = "idle"
  /\ ~rerun
  /\ runs < MaxRuns
  /\ AnyResult
  /\ runs' = runs + 1
  /\ rerun' = TRUE
  /\ clicked' = "clear"
  /\ issued' = <<>>
  /\ tab1_result' = NoResult
  /\ tab2_result' = NoResult
  /\ tab3_result' = NoResult
  /\ tab5_result' = NoResult
  /\ tab6_result' = NoResult
  /\ model_loaded' = FALSE
  /\ UNCHANGED <<cached, verifyAt, global_jd_text,
                 global_resume_text, callvars, jvars, uvars, rvars>>

\* lines 136-141: the button exists when a result is truthy; the slots are
\* set to None and st.rerun() ends the run before the tabs are rendered
btn_clear ==
  /\ pc["c1"] = "idle"
  /\ ~rerun
  /\ runs < MaxRuns
  /\ AnyResult
  /\ runs' = runs + 1
  /\ rerun' = TRUE
  /\ clicked' = "clear"
  /\ issued' = <<>>
  /\ tab1_result' = NoResult
  /\ tab2_result' = NoResult
  /\ tab3_result' = NoResult
  /\ tab5_result' = NoResult
  /\ tab6_result' = NoResult
  /\ UNCHANGED <<model_loaded, cached, verifyAt, global_jd_text,
                 global_resume_text, callvars, jvars, uvars, rvars>>

\* lines 199-205; load_model() is answered from the cache, which holds a
\* value whenever model_loaded is set
btn_match(jd, res, o) ==
  LET call == Call("match", o, NoResult, NoResult) IN
  IF model_loaded /\ jd # <<>> /\ res # <<>>
  THEN ScriptRun("btn_match", jd, res, <<call>>,
                 Assigned(tab1_result, call), tab2_result, tab3_result,
                 tab5_result, tab6_result)
  ELSE ScriptRun("btn_match", jd, res, <<>>, tab1_result, tab2_result,
                 tab3_result, tab5_result, tab6_result)

\* variant: Parse Resume does not look at model_loaded
btn_resume_Unguarded(jd, res, o) ==
  LET call == Call("resume", o, NoResult, NoResult) IN
  IF res # <<>>
  THEN ScriptRun("btn_resume", jd, res, <<call>>, tab1_result,
                 Assigned(tab2_result, call), tab3_result, tab5_result,
                 tab6_result)
  ELSE ScriptRun("btn_resume", jd, res, <<>>, tab1_result, tab2_result,
                 tab3_result, tab5_result, tab6_result)

\* lines 351-357
btn_resume(jd, res, o) ==
  LET call == Call("resume", o, NoResult, NoResult) IN
  IF model_loaded /\ res # <<>>
  THEN ScriptRun("btn_resume", jd, res, <<call>>, tab1_result,
                 Assigned(tab2_result, call), tab3_result, tab5_result,
                 tab6_result)
  ELSE ScriptRun("btn_resume", jd, res, <<>>, tab1_result, tab2_result,
                 tab3_result, tab5_result, tab6_result)

\* lines 410-416
btn_jd(jd, res, o) ==
  LET call == Call("jd", o, NoResult, NoResult) IN
  IF model_loaded /\ jd # <<>>
  THEN ScriptRun("btn_jd", jd, res, <<call>>, tab1_result, tab2_result,
                 Assigned(tab3_result, call), tab5_result, tab6_result)
  ELSE ScriptRun("btn_jd", jd, res, <<>>, tab1_result, tab2_result,
                 tab3_result, tab5_result, tab6_result)

\* lines 456-462
btn_salary(jd, res, o) ==
  LET call == Call("salary", o, NoResult, NoResult) IN
  IF model_loaded /\ jd # <<>> /\ res # <<>>
  THEN ScriptRun("btn_salary", jd, res, <<call>>, tab1_result, tab2_result,
                 tab3_result, Assigned(tab5_result, call), tab6_result)
  ELSE ScriptRun("btn_salary", jd, res, <<>>, tab1_result, tab2_result,
                 tab3_result, tab5_result, tab6_result)

\* lines 567-586: match, salary and report in a row, each result stored
\* before the next call; an exception ends the run where it is raised
btn_report(jd, res, o1, o2, o3) ==
  LET c1 == Call("match", o1, NoResult, NoResult)
      c2 == Call("salary", o2, NoResult, NoResult)
      c3 == Call("report", o3, c1.ret, c2.ret)
      calls == IF o1.raised THEN <<c1>>
               ELSE IF o2.raised THEN <<c1, c2>>
               ELSE <<c1, c2, c3>>
  IN
  IF model_loaded /\ jd # <<>> /\ res # <<>>
  THEN ScriptRun("btn_report", jd, res, calls,
                 Assigned(tab1_result, c1), tab2_result, tab3_result,
                 IF Len(calls) >= 2 THEN Assigned(tab5_result, c2)
                 ELSE tab5_result,
                 IF Len(calls) = 3 THEN Assigned(tab6_result, c3)
                 ELSE tab6_result)
  ELSE ScriptRun("btn_report", jd, res, <<>>, tab1_result, tab2_result,
                 tab3_result, tab5_result, tab6_result)

NextSession ==
  \/ \E jd, res \in TextInputs : Render(jd, res)
  \/ \E key \in LoadKeys : \E v \in {"200", "401"} :
       \E jd, res \in TextInputs : LoadModel(key, v, 0, jd, res)
  \/ btn_clear
  \/ \E jd, res \in TextInputs : \E o \in Outcomes(MatchValues) :
       btn_match(jd, res, o)
  \/ \E jd, res \in TextInputs : \E o \in Outcomes(ParseValues) :
       btn_resume(jd, res, o)
  \/ \E jd, res \in TextInputs : \E o \in Outcomes(ParseValues) :
       btn_jd(jd, res, o)
  \/ \E jd, res \in TextInputs : \E o \in Outcomes(SalaryValues) :
       btn_salary(jd, res, o)
  \/ \E jd, res \in TextInputs : \E o1 \in Outcomes(MatchValues) :
       \E o2 \in Outcomes(SalaryValues) : \E o3 \in Outcomes(ReportValues) :
         btn_report(jd, res, o1, o2, o3)

SpecSession == Init /\ [][NextSession]_vars

NextScore ==
  \/ Step("c1", ConcResponses, {0})
  \/ calculate_match_score_detailed("c1")

SpecScore == Init /\ [][NextScore]_vars

\* ------------------------------------------------ handle_file_upload
DefaultTexts == {Txt_SampleJD, Txt_Pasted}

\* the widget is rendered with any radio choice, any accepted file or none,
\* any set of importable libraries, and a text area holding the default
\* text or what the user typed
InitUpload ==
  /\ JsonIdle
  /\ ReportIdle
  /\ now = StartTime
  /\ LAST_REQUEST_TIME = 0
  /\ prevSender = "nobody"
  /\ pc = [t \in Callers |-> "idle"]
  /\ api_key = [t \in Callers |-> ""]
  /\ attempt = [t \in Callers |-> 0]
  /\ wake = [t \in Callers |-> 0]
  /\ sentAt = [t \in Callers |-> 0]
  /\ outcome = [t \in Callers |-> "none"]
  /\ nsend = [t \in Callers |-> 0]
  /\ log = [t \in Callers |-> <<>>]
  /\ waits = [t \in Callers |-> <<>>]
  /\ gateWait = [t \in Callers |-> 0]
  /\ lastAtEntry = [t \in Callers |-> 0]
  /\ gap = 0
  /\ gapKind = "none"
  /\ SessionStart
  /\ installed \in SUBSET Libraries
  /\ method \in {"Paste Text", "Upload File"}
  /\ uploaded \in {NoFile} \cup UploadedFiles
  /\ default_text \in DefaultTexts
  /\ pasted \in {default_text, <<>>, Page_ErrorLog}
  /\ text = <<>>
  /\ returned = <<>>
  /\ shown = "none"
  /\ upc = "ready"

\* one run of handle_file_upload(label, key_prefix, default_text)
handle_file_upload ==
  /\ upc = "ready"
  /\ upc' = "returned"
  /\ IF method = "Upload File"
     THEN IF uploaded # NoFile
          THEN /\ text' = extract_text_from_file(uploaded, uploaded.name,
                                                 installed)
               /\ IF /\ text' # <<>>
                     /\ ~StartsWith(text', Txt_Error)
                     /\ ~StartsWith(text', Txt_CouldNot)
                  THEN /\ shown' = "success"
                       /\ returned' = text'
                  ELSE /\ shown' = "error"
                       /\ returned' = default_text
          ELSE /\ shown' = "info"
               /\ returned' = default_text
               /\ UNCHANGED text
     ELSE /\ returned' = pasted
          /\ UNCHANGED <<text, shown>>
  /\ UNCHANGED <<installed, method, uploaded, default_text, pasted, callvars,
                 jvars, rvars, svars>>

NextUpload == handle_file_upload

SpecUpload == InitUpload /\ [][NextUpload]_vars

\* =================================================================
\* Properties of call_llm
\* =================================================================
Terminated(t) == pc[t] \in {"done", "raised"}

AllKind(lg, k) == lg # <<>> /\ \A i \in 1..Len(lg) : lg[i].kind = k

\* outcomes that are a returned string carrying an error message
ErrorOutcomes ==
  {"NoKey", "Auth", "Malformed", "Timeout", "RateLimit",
   "RateLimitAfterRetries", "Transport"}

R401 == Resp("401", NoHeader, "none", FALSE)
R429h7 == Resp("429", Header(<<"7">>), "none", FALSE)
R200ok == Resp("200", NoHeader, "ok", FALSE)
RTimeout == Resp("timeout", NoHeader, "none", FALSE)

\* C1: in a single-threaded run two consecutive send timestamps written to
\* LAST_REQUEST_TIME are at least MIN_REQUEST_INTERVAL apart, between two
\* invocations and between an attempt and its retry, and an invocation that
\* has a key is delayed, never dropped (it reaches its send).
C1_MinSpacing ==
  /\ gapKind \in {"call", "retry"} => gap >= MIN_REQUEST_INTERVAL
  /\ \A t \in Callers :
       (Terminated(t) /\ api_key[t] # "") => nsend[t] >= 1

\* C2: one invocation performs at most max_retries sends and then returns:
\* it ends only in success, a non-retryable failure or budget exhaustion.
C2_BoundedAttempts ==
  \A t \in Callers :
    /\ nsend[t] <= max_retries
    /\ Terminated(t) =>
         /\ pc[t] = "done"
         /\ outcome[t] \in ErrorOutcomes \cup {"Success"}

\* C3: for 401, 429 with any retry-after value, timeout, transport error and
\* a 2xx body without choices[0].message.content, at every attempt index,
\* no exception escapes: a string carrying an error message is returned.
C3_NoEscape ==
  \A t \in Callers :
    /\ pc[t] # "raised"
    /\ (pc[t] = "done" /\ log[t] # <<>>
          /\ log[t][Len(log[t])] # R200ok) => outcome[t] \in ErrorOutcomes

\* C4: with two concurrent callers the gate check and the timestamp write
\* act as one critical section: two callers never record send timestamps
\* less than MIN_REQUEST_INTERVAL apart.
C4_AtomicGate == gapKind = "cross" => gap >= MIN_REQUEST_INTERVAL

\* C5: a 401 makes call_llm return the authentication error at once, with no
\* backoff sleep and no further send; an endpoint that always answers 401
\* sees exactly 1 send.
C5_AuthNotRetried ==
  \A t \in Callers :
    (log[t] # <<>> /\ log[t][Len(log[t])].kind = "401") =>
      /\ pc[t] = "done"
      /\ outcome[t] = "Auth"
      /\ nsend[t] = Len(log[t])
      /\ Len(waits[t]) = Len(log[t]) - 1
      /\ AllKind(log[t], "401") => (nsend[t] = 1 /\ waits[t] = <<>>)

C5_Witness ==
  /\ log["c1"] = <<R401>>
  /\ pc["c1"] = "done"
  /\ nsend["c1"] = 1

\* C6: 429 with retry-after: 7 twice, then 200: the wait before attempt 2
\* and before attempt 3 is at least 7 s and at most 90 s, and the success
\* text is returned after exactly 3 sends.
C6_RetryAfterSeven ==
  \A t \in Callers :
    /\ (log[t] \in {<<R429h7>>, <<R429h7, R429h7>>, <<R429h7, R429h7, R200ok>>}) =>
         /\ \A i \in 1..Len(waits[t]) : waits[t][i] >= 7 /\ waits[t][i] <= 90
         /\ (nsend[t] > 1 /\ gapKind = "retry") => gap >= 7
    /\ (log[t] \in {<<R429h7>>, <<R429h7, R429h7>>}) =>
         /\ Len(waits[t]) = Len(log[t])
         /\ pc[t] \in {"backoff", "send", "posted"}
    /\ log[t] = <<R429h7, R429h7, R200ok>> =>
         /\ pc[t] = "done"
         /\ outcome[t] = "Success"
         /\ nsend[t] = 3
         /\ Len(waits[t]) = 2

C6_Witness ==
  /\ log["c1"] = <<R429h7, R429h7, R200ok>>
  /\ outcome["c1"] = "Success"
  /\ nsend["c1"] = 3

\* C7: when every send times out, call_llm returns the timeout failure after
\* exactly max_retries sends, having slept TIMEOUT_DELAY before each retry:
\* the time elapsed is that of the sends plus the sum of these delays.
C7_AlwaysTimeout ==
  \A t \in Callers :
    (AllKind(log[t], "timeout") /\ Terminated(t)) =>
      /\ pc[t] = "done"
      /\ outcome[t] = "Timeout"
      /\ nsend[t] = max_retries
      /\ waits[t] = <<TIMEOUT_DELAY, TIMEOUT_DELAY, TIMEOUT_DELAY>>
      /\ now = StartTime + gateWait[t] + max_retries * POST_TIMEOUT
                 + (max_retries - 1) * TIMEOUT_DELAY

C7_Witness ==
  /\ log["c1"] = <<RTimeout, RTimeout, RTimeout, RTimeout>>
  /\ outcome["c1"] = "Timeout"
  /\ pc["c1"] = "done"

\* C8: when every send is answered 429, each 429 uses one unit of the
\* budget: exactly max_retries sends, then the rate-limit-exceeded failure.
C8_AlwaysRateLimited ==
  \A t \in Callers :
    (AllKind(log[t], "429") /\ Terminated(t)) =>
      /\ pc[t] = "done"
      /\ outcome[t] = "RateLimitAfterRetries"
      /\ nsend[t] = max_retries

\* C9: with no API key call_llm returns the 'API key not configured' error
\* without a send, without a sleep and with LAST_REQUEST_TIME unchanged.
C9_NoKeyFailsFast ==
  \A t \in Callers :
    (pc[t] # "idle" /\ api_key[t] = "") =>
      /\ pc[t] = "done"
      /\ outcome[t] = "NoKey"
      /\ nsend[t] = 0
      /\ log[t] = <<>>
      /\ waits[t] = <<>>
      /\ gateWait[t] = 0
      /\ LAST_REQUEST_TIME = lastAtEntry[t]
      /\ now = StartTime

C9_Witness ==
  /\ pc["c1"] = "done"
  /\ outcome["c1"] = "NoKey"
  /\ LAST_REQUEST_TIME # 0

\* the retry-after header h is present, not empty, and int(h) succeeds
NumericHeader(h) == h.present /\ h.text # <<>> /\ ParseInt(h.text).ok

R429h100 == Resp("429", Header(<<"1", "0", "0">>), "none", FALSE)

\* every send uses the attempt index that follows the previous one: the
\* responses received so far are one per earlier attempt
OneUnitPerSend ==
  \A t \in Callers :
    /\ nsend[t] <= max_retries
    /\ pc[t] = "posted" => (nsend[t] = attempt[t] + 1 /\ Len(log[t]) = attempt[t])
    /\ pc[t] = "backoff" => (nsend[t] = attempt[t] + 1 /\ Len(log[t]) = nsend[t])

\* C19 as stated: on a 429 at attempt index i the backoff is, with a
\* numeric retry-after header, at least the header value and at most 90 s,
\* and without one the i-th entry of retry_delays; the next send consumes
\* one unit of the attempt budget.
C19_AtLeastHeader ==
  /\ OneUnitPerSend
  /\ \A t \in Callers : \A i \in 1..Len(waits[t]) :
       log[t][i].kind = "429" =>
         IF NumericHeader(log[t][i].hdr)
         THEN /\ waits[t][i] >= ParseInt(log[t][i].hdr.text).val
              /\ waits[t][i] <= RETRY_AFTER_CAP
         ELSE waits[t][i] = retry_delays[i]

\* C19 amended: with a retry-after header that int() accepts as h the
\* backoff is min(h + 2, 90): never above 90 s, at least h when h <= 90 and
\* 90 s, below the header value, when h > 90; a negative backoff (h < -2)
\* is not slept: time.sleep raises. Without such a header the backoff is
\* the i-th entry of retry_delays. The next send, if there is one, consumes
\* one unit of the attempt budget.
C19_ClampedHeader ==
  /\ OneUnitPerSend
  /\ \A t \in Callers : \A i \in 1..Len(waits[t]) :
       log[t][i].kind = "429" =>
         LET h == log[t][i].hdr
             w == waits[t][i]
         IN IF NumericHeader(h)
            THEN /\ w = Min(ParseInt(h.text).val + RETRY_AFTER_BUFFER,
                            RETRY_AFTER_CAP)
                 /\ w <= RETRY_AFTER_CAP
                 /\ ParseInt(h.text).val <= RETRY_AFTER_CAP =>
                      w >= ParseInt(h.text).val
                 /\ ParseInt(h.text).val > RETRY_AFTER_CAP =>
                      w = RETRY_AFTER_CAP
                 /\ w < 0 => (pc[t] = "raised" /\ i = Len(waits[t]))
            ELSE w = retry_delays[i]

C19_Witness ==
  /\ log["c1"] = <<Resp("429", NoHeader, "none", FALSE), R429h100>>
  /\ waits["c1"] = <<5, RETRY_AFTER_CAP>>
  /\ pc["c1"] = "posted"
  /\ nsend["c1"] = 3

\* C20: a RequestException that is not a Timeout (the HTTPError of
\* raise_for_status included) is never retried: the transport failure is
\* returned at once, with no sleep and no further send, whatever the text
\* of the exception.
C20_TransportNotRetried ==
  \A t \in Callers :
    (log[t] # <<>> /\ log[t][Len(log[t])].kind \in {"exc", "500"}) =>
      /\ pc[t] = "done"
      /\ outcome[t] = "Transport"
      /\ nsend[t] = Len(log[t])
      /\ Len(waits[t]) = Len(log[t]) - 1

\* C17: every failure outcome call_llm returns (missing credential, 401,
\* rate limit exhausted, timeout, transport error, malformed response),
\* passed through safe_json_parse as the analysis functions do, yields a
\* mapping with an 'error' key.
C17_ErrorKeyPresent ==
  (jpc # "idle" /\ outcome["c1"] \in ErrorOutcomes) =>
    /\ jpc = "parsed"
    /\ Txt_error \in DOMAIN result
    /\ result[Txt_error].t = "str"

C17_Witness ==
  /\ jpc = "parsed"
  /\ outcome["c1"] = "Transport"
  /\ response = PyStr(ErrorJson(Msg_TransportPrefix \o Txt_TrickyError))
  /\ Txt_error \in DOMAIN result

\* the error kinds of the taxonomy
KindOfOutcome(res) ==
  CASE res = "NoKey" -> "credential"
    [] res = "Auth" -> "auth"
    [] res \in {"RateLimit", "RateLimitAfterRetries"} -> "rate_limit"
    [] res = "Timeout" -> "timeout"
    [] res = "Transport" -> "transport"
    [] res = "Malformed" -> "malformed"
    [] OTHER -> "none"

ErrorKinds ==
  {"credential", "auth", "rate_limit", "timeout", "transport", "malformed"}

\* every message the outcomes of one kind can carry
MessagesOfKind ==
  [k \in ErrorKinds |->
     UNION { Messages(res, r) :
               res \in {o \in ErrorOutcomes : KindOfOutcome(o) = k},
               r \in AnalysisResponses }]

\* the message a caller reads from the returned string
MessageOf(txt) == json_loads(txt).val.kv[Txt_error].s

\* C18: the error outcomes of distinct kinds (auth, rate limit exhausted,
\* timeout, transport error, malformed response) carry pairwise distinct
\* messages: the message that is returned belongs to the kind of the
\* outcome and to no other kind.
C18_DistinctMessages ==
  (jpc # "idle" /\ outcome["c1"] \in ErrorOutcomes) =>
    LET message == MessageOf(response.s) IN
    \A k \in ErrorKinds :
      message \in MessagesOfKind[k] <=> k = KindOfOutcome(outcome["c1"])

C18_Witness ==
  /\ jpc = "parsed"
  /\ outcome["c1"] = "Timeout"
  /\ MessageOf(response.s) = Msg_Timeout
  /\ Len(log["c1"]) = max_retries

\* =================================================================
\* Properties of safe_json_parse
\* =================================================================
\* a '{' with a '}' at a later position
HasBraceSpan(txt) ==
  \E i \in 1..Len(txt) : \E j \in (i + 1)..Len(txt) :
    txt[i] = "{" /\ txt[j] = "}"

\* no part of the text is a JSON object
ContainsNoObject(txt) ==
  \A i \in 1..Len(txt) : \A j \in (i + 1)..Len(txt) :
    (txt[i] = "{" /\ txt[j] = "}") => ~json_loads(SubSeq(txt, i, j)).ok

HasErrorAndRaw(r, txt) ==
  /\ Txt_error \in DOMAIN r
  /\ Txt_raw \in DOMAIN r
  /\ r[Txt_raw] = JStr(Prefix(txt, RawLimit))

BothParsesFail(txt) ==
  /\ ~json_loads(txt).ok
  /\ ~json_loads(ReplaceQuotes(txt)).ok

\* C10 as stated: with no default, an input that contains no JSON object
\* at all yields a mapping with an 'error' key and a 'raw' key equal to the
\* first 500 characters of the input.
C10_NoJsonGivesError ==
  (jpc = "parsed" /\ default = NoDefault /\ ~response.none
     /\ ContainsNoObject(response.s)) =>
    HasErrorAndRaw(result, response.s)

\* C10 amended: with no default, an input without a '{' followed by a '}'
\* (such as 'not json at all') yields the empty mapping; the mapping with
\* 'error' and 'raw' (the first 500 characters of the input) is returned
\* exactly when the input has such a span and the repaired span fails both
\* parse attempts.
C10_NoSpanGivesEmpty ==
  (jpc = "parsed" /\ default = NoDefault /\ ~response.none) =>
    /\ ~HasBraceSpan(response.s) => result = <<>>
    /\ BothParsesFail(cleaned) <=> (Txt_raw \in DOMAIN result
                                     /\ result[Txt_error] = JStr(ParseFailedMessage))
    /\ BothParsesFail(cleaned) =>
         /\ HasBraceSpan(response.s)
         /\ HasErrorAndRaw(result, response.s)

C10_Witness ==
  /\ jpc = "parsed"
  /\ response = PyStr(Txt_NotJson)
  /\ default = NoDefault
  /\ result = <<>>

\* C11: clean_json_response is idempotent: applied to its own output it
\* returns that output, also for inputs with several consecutive trailing
\* commas before a closing bracket.
C11_Idempotent ==
  jpc \in {"parsed", "raised"} =>
    clean_json_response(PyStr(cleaned)) = cleaned

\* C12: for a well-formed JSON object, optionally inside fence markers
\* (with or without a language tag) and inside prose, clean_json_response
\* returns the text of the object, character for character.
C12_ExtractsObject ==
  \A w \in Wrappings :
    (jpc \in {"parsed", "raised"} /\ response = PyStr(Wrap(w))) =>
      cleaned = w.obj

\* C14: when both parse attempts fail, a supplied default is returned,
\* the empty mapping included; the mapping with 'error' and 'raw' is
\* returned only when no default was supplied.
C14_DefaultReturned ==
  (jpc = "parsed" /\ BothParsesFail(cleaned)) =>
    IF default.given
    THEN result = default.d
    ELSE HasErrorAndRaw(result, response.s)

\* C15: an object whose only defect is a comma, optionally followed by
\* whitespace, right before a closing bracket parses to the mapping of
\* the object without that comma.
C15_TrailingCommaRepaired ==
  \A obj \in WellFormedObjects :
    (jpc = "parsed" /\ ~response.none /\ response.s \in CommaDefects(obj)) =>
      result = json_loads(obj).val.kv

\* C13: safe_json_parse never raises and returns a mapping, for every
\* input text, the empty text and None included, and every default.
C13_NeverRaises ==
  jpc # "ready" =>
    /\ jpc = "parsed"
    /\ ReturnedType(response) = "obj"

\* ---------------------------------------------------------------------
\* handle_file_upload properties
\* ---------------------------------------------------------------------

\* the upload branch ran extract_text_from_file on a file
Extracted == upc = "returned" /\ method = "Upload File" /\ uploaded # NoFile

\* C16: every failure diagnostic extract_text_from_file returns (read and
\* extraction errors, a missing library, an unsupported format) is treated
\* by handle_file_upload as no usable text: the caller gets its default
\* text and the diagnostic is never what is forwarded.
C16_DiagnosticNotForwarded ==
  (Extracted /\ text \in DiagnosticTexts) =>
    /\ returned = default_text
    /\ returned # text
    /\ shown = "error"

\* ---------------------------------------------------------------------
\* call_llm properties, continued
\* ---------------------------------------------------------------------

\* the body holds choices[0].message.content
HasContentPath(body) == body \in {"ok", "null_content"}

\* C21: on a 2xx response call_llm returns at once, without a sleep or a
\* further send and without raising: the success outcome when the body holds
\* choices[0].message.content, the 'Invalid API response' failure when a
\* step of that path is absent.
C21_SuccessOrMalformed ==
  \A t \in Callers :
    (log[t] # <<>> /\ LastResponse(t).kind = "200") =>
      /\ pc[t] = "done"
      /\ outcome[t] = IF HasContentPath(LastResponse(t).body)
                      THEN "Success" ELSE "Malformed"
      /\ Len(waits[t]) = Len(log[t]) - 1
      /\ nsend[t] = Len(log[t])

\* C22: every backoff sleep of call_llm lies between two send attempts: no
\* sleep starts after the send that exhausts the attempt budget, on the
\* HTTP 429 path as on the timeout path.
C22_SleepBetweenSends ==
  \A t \in Callers :
    /\ pc[t] = "backoff" => nsend[t] < max_retries
    /\ Len(waits[t]) <= max_retries - 1

\* a step in which some caller issues requests.post
SendStep == \E t \in Callers : nsend'[t] = nsend[t] + 1

\* C23: LAST_REQUEST_TIME is written at every send attempt, first or retry,
\* with the time of the send, and by no other step of call_llm: not by the
\* rate gate, not when the response arrives, not by a backoff.
C23_WrittenAtSend ==
  [][/\ SendStep => LAST_REQUEST_TIME' = now /\ now' = now
     /\ ~SendStep => LAST_REQUEST_TIME' = LAST_REQUEST_TIME]_vars

\* the retry after a timeout has stamped its own send time, later than the
\* first send and than the arrival of the failure
C23_Witness ==
  /\ pc["c1"] = "posted"
  /\ nsend["c1"] = 2
  /\ log["c1"] = <<RTimeout>>
  /\ gateWait["c1"] > 0
  /\ LAST_REQUEST_TIME = sentAt["c1"]
  /\ LAST_REQUEST_TIME = now
  /\ gap = POST_TIMEOUT + TIMEOUT_DELAY

\* C29: every sleep duration computed in call_llm (the rate-gate wait, the
\* 429 backoff from the header or from the schedule, the timeout backoff)
\* is at least 0 and at most 90 seconds (RETRY_AFTER_CAP), whatever the
\* retry-after header and the attempt index.
C29_WaitsInRange ==
  \A t \in Callers :
    /\ 0 <= gateWait[t] /\ gateWait[t] <= RETRY_AFTER_CAP
    /\ \A i \in 1..Len(waits[t]) :
         0 <= waits[t][i] /\ waits[t][i] <= RETRY_AFTER_CAP

\* ---------------------------------------------------------------------
\* clean_json_response properties, continued
\* ---------------------------------------------------------------------

\* the input after .strip() and the removal of the fence markers
FenceStripped(txt) == StripFences(Strip(txt))

\* positions of the '{' and '}' characters of a text
Opens(txt) == {i \in 1..Len(txt) : txt[i] = "{"}
Closes(txt) == {i \in 1..Len(txt) : txt[i] = "}"}
FirstOpen(txt) == CHOOSE i \in Opens(txt) : \A k \in Opens(txt) : i <= k
LastClose(txt) == CHOOSE i \in Closes(txt) : \A k \in Closes(txt) : k <= i

\* no '{', no '}', or the last '}' before the first '{'
NoObjectSpan(txt) ==
  \/ Opens(txt) = {}
  \/ Closes(txt) = {}
  \/ LastClose(txt) < FirstOpen(txt)

\* what the trailing-comma repair may drop from the span
Droppable(c) == c = "," \/ c \in PyWhitespace
Solid(c) == ~Droppable(c)

\* C25: clean_json_response returns "{}" for the empty input and None and
\* when the fence-stripped text has no '{', no '}' or its last '}' before
\* its first '{'; in every other case the result starts with the first '{'
\* and ends with the last '}' of the fence-stripped text and holds the
\* characters between them, commas and whitespace apart.
C25_SpanOrEmpty ==
  jpc \in {"parsed", "raised"} =>
    IF response.none \/ response.s = <<>>
         \/ NoObjectSpan(FenceStripped(response.s))
    THEN cleaned = EmptyObjectText
    ELSE LET stripped == FenceStripped(response.s)
             span == SubSeq(stripped, FirstOpen(stripped), LastClose(stripped))
         IN /\ cleaned[1] = "{"
            /\ cleaned[Len(cleaned)] = "}"
            /\ Len(cleaned) <= Len(span)
            /\ SelectSeq(cleaned, Solid) = SelectSeq(span, Solid)

\* prose around an object: the result is the object
C25_Witness ==
  /\ jpc = "parsed"
  /\ response = PyStr(Txt_Prose)
  /\ ~NoObjectSpan(FenceStripped(response.s))
  /\ cleaned = Txt_Plain
  /\ Len(cleaned) < Len(response.s)

\* ---------------------------------------------------------------------
\* calculate_match_score_detailed properties
\* ---------------------------------------------------------------------

\* the overall_score the model wrote, as parsed from the response
WrittenScoreOf(parsed) == RawScore(parsed[Txt_match_summary])

\* the response has a match_summary
HasSummary ==
  /\ jpc \in {"parsed", "raised"}
  /\ Contains(cleaned, Txt_match_summary)
  /\ EscapingException(response) = "none"
  /\ Txt_match_summary \in DOMAIN safe_json_parse(response, NoDefault)

\* C26: whenever the result has a match_summary, the normalization
\* completes without raising, for an integer score, a numeric string with or
\* without '%', a non-numeric string, a missing and a null score; grade and
\* recommendation are those of the threshold ladder for the score (85: A,
\* 75: B+, 65: B, 55: C, below: D), whatever grade the model wrote.
C26_GradeFromScore ==
  HasSummary =>
    /\ jpc = "parsed"
    /\ LET summary == result[Txt_match_summary].kv
           pair == [recommendation |-> summary[Txt_recommendation].s,
                    grade |-> summary[Txt_grade].s]
           written == WrittenScoreOf(safe_json_parse(response, NoDefault))
           number == ParseInt(SelectSeq(written.s, NotPercent))
       IN /\ \E n \in {SCORE_A, SCORE_B_PLUS, SCORE_B, SCORE_C, 0} :
               pair = GradeOf(n)
          /\ written.t = "num" => pair = GradeOf(written.n)
          /\ (written.t = "str" /\ number.ok) => pair = GradeOf(number.val)

\* ---------------------------------------------------------------------
\* generate_hiring_report_detailed properties
\* ---------------------------------------------------------------------

\* match_result is not empty and has a match_summary
HasMatchSummary ==
  DOMAIN match_result # {} /\ Txt_match_summary \in DOMAIN match_result

\* the field of the summary of the report equals the field of match_summary
SameAsMatch(reportField, matchField) ==
  LET summary == match_result[Txt_match_summary].kv IN
  /\ matchField \in DOMAIN summary
  /\ result[Txt_executive_summary].kv[reportField] = summary[matchField]

\* C27: in the mapping generate_hiring_report_detailed returns, when
\* executive_summary is present its recommendation, ats_score and grade are
\* the values of match_result.match_summary, or CONSIDER / 70 / B when
\* match_result is empty or has no match_summary; final_recommendation.
\* decision, when present, is that recommendation; whatever the model wrote.
C27_ReportConsistent ==
  (jpc = "parsed" /\ pc["c1"] = "done") =>
    /\ Txt_executive_summary \in DOMAIN result =>
         IF HasMatchSummary
         THEN /\ SameAsMatch(Txt_recommendation, Txt_recommendation)
              /\ SameAsMatch(Txt_ats_score, Txt_overall_score)
              /\ SameAsMatch(Txt_grade, Txt_grade)
         ELSE LET summary == result[Txt_executive_summary].kv IN
              /\ summary[Txt_recommendation] = JStr(Txt_Consider)
              /\ summary[Txt_ats_score] = JNum(ATS_DEFAULT)
              /\ summary[Txt_grade] = JStr(Txt_GradeB)
    /\ Txt_final_recommendation \in DOMAIN result =>
         result[Txt_final_recommendation].kv[Txt_decision]
           = PreCalculated(match_result).recommendation

\* ---------------------------------------------------------------------
\* initialize_llm properties
\* ---------------------------------------------------------------------

\* C24: the first send of the call_llm that follows the key-verification
\* POST of initialize_llm is at least MIN_REQUEST_INTERVAL seconds after
\* that POST.
C24_VerificationSpaced ==
  (verifyAt >= 0 /\ pc["c1"] = "posted" /\ nsend["c1"] = 1) =>
    sentAt["c1"] - verifyAt >= MIN_REQUEST_INTERVAL

\* ---------------------------------------------------------------------
\* session state properties
\* ---------------------------------------------------------------------

\* the step is a script run
IsRun == runs' # runs

\* C28: model_loaded is False when the session starts; a script run issues
\* an analysis call only when model_loaded is True; model_loaded becomes
\* True only in a run of the Load button in which load_model returned (its
\* value is cached); and once True it is never reset.
C28_LoadedBeforeCalls ==
  /\ ~model_loaded
  /\ [][/\ (IsRun /\ issued' # <<>>) => model_loaded
        /\ (~model_loaded /\ model_loaded') => (clicked' = "load" /\ cached')
        /\ model_loaded => model_loaded']_vars

\* a load whose verification POST was refused has left model_loaded False,
\* and a click on an analysis button with both texts given made no call
C28_Witness ==
  /\ ~model_loaded
  /\ verifyAt >= 0
  /\ clicked = "btn_report"
  /\ global_jd_text # <<>>
  /\ global_resume_text # <<>>
  /\ issued = <<>>

\* the result slots outside written are as before the step
OnlyWrites(written) ==
  /\ 1 \notin written => tab1_result' = tab1_result
  /\ 2 \notin written => tab2_result' = tab2_result
  /\ 3 \notin written => tab3_result' = tab3_result
  /\ 5 \notin written => tab5_result' = tab5_result
  /\ 6 \notin written => tab6_result' = tab6_result
  /\ model_loaded' = model_loaded

\* the slots Generate Report has written when n of its calls were made
ReportWrites(n) == IF n = 0 THEN {} ELSE IF n = 1 THEN {1}
                   ELSE IF n = 2 THEN {1, 5} ELSE {1, 5, 6}

\* C30: a run of a single-tab analysis button changes no result slot but
\* its own; a run of Generate Report changes only tab1_result, tab5_result
\* and tab6_result, in that order (a later slot is written only when the
\* earlier calls returned and their slots hold what they returned), and the
\* report is given exactly the match and salary results stored in
\* tab1_result and tab5_result; Clear All Results sets the five slots to
\* None and leaves model_loaded and the shared texts as they were.
C30_SlotsWritten ==
  [][IsRun =>
      /\ clicked' = "btn_match" => OnlyWrites({1})
      /\ clicked' = "btn_resume" => OnlyWrites({2})
      /\ clicked' = "btn_jd" => OnlyWrites({3})
      /\ clicked' = "btn_salary" => OnlyWrites({5})
      /\ clicked' = "btn_report" =>
           /\ OnlyWrites(ReportWrites(Len(issued')))
           /\ Len(issued') >= 2 => tab1_result' = issued'[1].ret
           /\ Len(issued') = 3 =>
                /\ tab5_result' = issued'[2].ret
                /\ issued'[3].match = tab1_result'
                /\ issued'[3].salary = tab5_result'
                /\ ~issued'[3].ret.none => tab6_result' = issued'[3].ret
      /\ clicked' = "clear" =>
           /\ tab1_result' = NoResult
           /\ tab2_result' = NoResult
           /\ tab3_result' = NoResult
           /\ tab5_result' = NoResult
           /\ tab6_result' = NoResult
           /\ model_loaded' = model_loaded
           /\ global_jd_text' = global_jd_text
           /\ global_resume_text' = global_resume_text]_vars

\* Generate Report has stored its three results, the report was given the
\* stored match and salary results, and the slot of another tab is kept
C30_Witness ==
  /\ clicked = "btn_report"
  /\ Len(issued) = 3
  /\ tab1_result = issued[3].match
  /\ tab5_result = issued[3].salary
  /\ tab6_result = issued[3].ret
  /\ ~tab6_result.none
  /\ ~tab2_result.none

====
